---- MODULE Spec2Model ----
(***************************************************************************)
(* A model of the Instagram metadata extraction scripts of this            *)
(* repository: the shortcode extractor, get_reel_creator's strategy chain, *)
(* the API server's oEmbed handler and its request loop, the CSV URL       *)
(* validator, the post loop of the profile scraper and its retry helper,   *)
(* and the three batch runners that fetch one post per profile, together   *)
(* with analyze_content, the paths that discover a profile's post, the     *)
(* result of scrape_instagram_profile, the rows the runners write, the     *)
(* scraper handler's use of sys.argv and the limited runs (--sample and    *)
(* --test) that swap profile_link.txt.                                     *)
(*                                                                         *)
(* Text is modelled as what it is: a Python str is a sequence of           *)
(* one-character strings, and every regular expression of the source is an *)
(* operator that scans such a sequence the way re.search / re.match /      *)
(* re.findall do (leftmost match, greedy repetition).                      *)
(***************************************************************************)
EXTENDS Integers, Sequences, FiniteSets, TLC

VARIABLES
    prog,       \* the script a behaviour runs
    sc_pc,      \* extract_shortcode_from_url: "call" | "done"
    sc_url,     \* its argument
    sc_result,  \* its return value
    requests,   \* the HTTP requests issued so far, in order
    cr_pc,      \* get_reel_creator: the place it is at
    cr_url,     \* its argument reel_url
    cr_shortcode,      \* its local shortcode
    cr_page,           \* response.text, as far as it has been scanned
    cr_thumbnail_url,  \* its local thumbnail_url
    cr_tried,          \* the strategies evaluated so far, in order
    cr_result,         \* its return value
    oe_pc,        \* handle_instagram_oembed: the place it is at
    oe_post_url,  \* params.get('postUrl')
    oe_data,      \* its local oembed_data
    stdout,       \* the responses send_response printed, in order
    va_pc,        \* validate_collected_urls: the place it is at
    va_rows,      \* the rows of the input file
    va_validated, \* its local validated
    va_saved,     \* the rows of profile_posts_validated.csv
    sp_pc,         \* scrape_instagram_profile's post loop: the place it is at
    sp_taken,      \* the posts taken from profile.get_posts() so far
    sp_post_index, \* its local post_index
    sp_post_count, \* its local post_count, the length of posts
    sp_reel_count, \* its local reel_count, the length of reels
    pp_pc,         \* process_profiles (fetch_profile_posts.py): the place it is at
    pp_profiles,   \* len(profiles)
    pp_post_url,   \* its local post_url
    pp_results,    \* its local results
    pp_processed,  \* its local processed
    pp_sink,       \* the rows of output_csv
    pp_printed,    \* the counts it printed as "Processed N profiles"
    pp_interrupted, \* a KeyboardInterrupt was raised in it
    pa_pc,         \* process_profiles_auto (auto_fetch_posts.py): the place it is at
    pa_profiles,   \* len(profiles)
    pa_i,          \* its loop index i
    pa_post_data,  \* its local post_data
    pa_results,    \* its local results
    pa_sink,       \* the rows of profile_posts_auto.csv
    pa_net,        \* the last two of its sleeps and HTTP requests, in order
    pa_interrupted, \* a KeyboardInterrupt was raised in it
    pf_pc,         \* process_all_profiles (fast_fetch_posts.py): the place its main thread is at
    pf_profiles,   \* len(profiles)
    pf_replies,    \* what the network answers to the fetch of each profile
    pf_i,          \* its loop index i, the start of the batch
    pf_tasks,      \* the process_profile task of each profile: "new", "queued", "running",
                   \* the status of its result or "raised", or "collected"
    pf_results,    \* its local results
    pf_sink,       \* the rows of profile_posts_real.csv
    pf_interrupted, \* a KeyboardInterrupt was raised in its main thread
    pf_successful, \* its local successful
    pf_failed,     \* its local failed
    api_pc,        \* api_server.py main: "loop", or how its loop ended
    api_imported,  \* the import of instagram_scraper at its start succeeded
    api_read,      \* the request lines it has read from stdin, in order
    api_stdout,    \* the lines printed to stdout, in order
    rt_pc,             \* exponential_backoff_retry: "loop", "returned" or "raised"
    rt_max_retries,    \* its argument max_retries
    rt_initial_delay,  \* its argument initial_delay
    rt_attempt,        \* its loop variable attempt
    rt_last_exception, \* its local last_exception
    rt_calls,          \* what each invocation of func did, in order
    rt_slept,          \* the arguments of its time.sleep calls, in order
    rt_end,            \* what it returned or raised
    an_pc,         \* analyze_content: "call" | "done"
    an_reel_data,  \* its argument reel_data
    an_analysis,   \* its return value
    dp_pc,      \* the post discovery paths: "call" | "done"
    dp_path,    \* the function that is called
    dp_input,   \* what it is called with, or what the network answers it
    dp_record,  \* what it returns
    sr_pc,          \* scrape_instagram_profile with its lists: "profile", "loop", "post" or "done"
    sr_taken,       \* the posts it has taken from profile.get_posts()
    sr_post,        \* its loop variable post
    sr_posts,       \* its local posts
    sr_reels,       \* its local reels
    sr_post_count,  \* its local post_count
    sr_reel_count,  \* its local reel_count
    sr_result,      \* what it returns
    rw_pc,      \* a writer of a CSV with a status column: "rows" | "done"
    rw_writer,  \* the function that writes
    rw_rows,    \* the rows it has made
    rw_sink,    \* the rows of its CSV file
    hs_pc,             \* handle_instagram_scraper in the server loop: "request", "handler", "scraper" or "exited"
    hs_argv,           \* sys.argv
    hs_original_argv,  \* its local original_argv
    hs_params,         \* its argument params
    hs_handled,        \* the scraper requests the server has taken
    hs_seen,           \* the sys.argv each run of the scraper's main has parsed, with the params of its request
    lr_pc,        \* the limited run: "copy", "read", "write", "aside", "install", "batch", "restore" or "ended"
    lr_mode,      \* "sample" for auto_fetch_posts.py --sample, "test" for fast_fetch_posts.py --test
    lr_files,     \* the files of the working directory, by name
    lr_lines,     \* the local lines
    lr_original,  \* profile_link.txt when the run started
    lr_read,      \* profile_link.txt as the batch run read it
    lr_end        \* how the batch run ended: "completed", "error" or "interrupt"

scVars == <<sc_pc, sc_url, sc_result>>
crVars == <<cr_pc, cr_url, cr_shortcode, cr_page, cr_thumbnail_url, cr_tried, cr_result>>

oeVars == <<oe_pc, oe_post_url, oe_data, stdout>>
vaVars == <<va_pc, va_rows, va_validated, va_saved>>

spVars == <<sp_pc, sp_taken, sp_post_index, sp_post_count, sp_reel_count>>

\* the state of the batch scripts
ppVars == <<pp_pc, pp_profiles, pp_post_url, pp_results, pp_processed, pp_sink,
           pp_printed, pp_interrupted>>

paVars == <<pa_pc, pa_profiles, pa_i, pa_post_data, pa_results, pa_sink, pa_net,
           pa_interrupted>>

pfVars == <<pf_pc, pf_profiles, pf_replies, pf_i, pf_tasks, pf_results, pf_sink, pf_interrupted,
           pf_successful, pf_failed>>

apiVars == <<api_pc, api_imported, api_read, api_stdout>>

rtVars == <<rt_pc, rt_max_retries, rt_initial_delay, rt_attempt, rt_last_exception,
           rt_calls, rt_slept, rt_end>>

anVars == <<an_pc, an_reel_data, an_analysis>>

dpVars == <<dp_pc, dp_path, dp_input, dp_record>>

srVars == <<sr_pc, sr_taken, sr_post, sr_posts, sr_reels, sr_post_count, sr_reel_count, sr_result>>

rwVars == <<rw_pc, rw_writer, rw_rows, rw_sink>>

hsVars == <<hs_pc, hs_argv, hs_original_argv, hs_params, hs_handled, hs_seen>>

lrVars == <<lr_pc, lr_mode, lr_files, lr_lines, lr_original, lr_read, lr_end>>

batchVars == <<spVars, ppVars, paVars, pfVars, apiVars, rtVars,
               anVars,
               dpVars,
               srVars,
               rwVars,
               hsVars,
               lrVars>>

vars == <<prog, requests, scVars, crVars, oeVars, vaVars, batchVars>>

-----------------------------------------------------------------------------
(* Strings *)

\* Python's None: a value no str equals (a str holds one-character items only).
None == <<"<None>">>

Min(S) == CHOOSE x \in S : \A y \in S : x <= y

RECURSIVE Flatten(_)
Flatten(ss) == IF ss = <<>> THEN <<>> ELSE Head(ss) \o Flatten(Tail(ss))

\* s[i:i+len(lit)] == lit
HasAt(s, i, lit) ==
    /\ i >= 1
    /\ i + Len(lit) - 1 <= Len(s)
    /\ \A k \in 1..Len(lit) : s[i + k - 1] = lit[k]

Upper == {"A","B","C","D","E","F","G","H","I","J","K","L","M",
          "N","O","P","Q","R","S","T","U","V","W","X","Y","Z"}
Lower == {"a","b","c","d","e","f","g","h","i","j","k","l","m",
          "n","o","p","q","r","s","t","u","v","w","x","y","z"}
Digit == {"0","1","2","3","4","5","6","7","8","9"}

\* the position after the longest run of characters of class C that starts at j
\* (j itself when s[j] is not in C): what a greedy C* consumes
RunEnd(s, j, C) ==
    Min({k \in j..(Len(s) + 1) : k = Len(s) + 1 \/ s[k] \notin C})

-----------------------------------------------------------------------------
(* instagram_oembed.py: extract_shortcode_from_url *)

\* the character class [A-Za-z0-9_-]
ShortcodeChars == Upper \cup Lower \cup Digit \cup {"_", "-"}

\* a variant that knows /p/ alone: C2 does not hold of it
ShortcodeTagEndPostOnly(s, i) ==
    IF HasAt(s, i, <<"/","p","/">>) THEN i + 3 ELSE 0

\* /(?:p|reel)/ matched at i: the position where the group ([A-Za-z0-9_-]+)
\* starts, 0 when neither alternative matches at i
ShortcodeTagEnd(s, i) ==
    IF HasAt(s, i, <<"/","p","/">>) THEN i + 3
    ELSE IF HasAt(s, i, <<"/","r","e","e","l","/">>) THEN i + 6
    ELSE 0

\* the pattern /(?:p|reel)/([A-Za-z0-9_-]+) matches at i
ShortcodeMatchAt(s, i) ==
    LET j == ShortcodeTagEnd(s, i)
    IN  j > 0 /\ j <= Len(s) /\ s[j] \in ShortcodeChars

\* re.search(r'/(?:p|reel)/([A-Za-z0-9_-]+)', url): group(1) of the leftmost
\* match, None without a match
extract_shortcode_from_url(url) ==
    LET M == {i \in 1..Len(url) : ShortcodeMatchAt(url, i)}
    IN  IF M = {} THEN None
        ELSE LET j == ShortcodeTagEnd(url, Min(M))
             IN  SubSeq(url, j, RunEnd(url, j, ShortcodeChars) - 1)

-----------------------------------------------------------------------------
(* Text scanning shared by the strategies of get_reel_creator *)

\* the characters of the source that are not ASCII: one item of a str each
Bullet     == "U+2022"
LeftQuote  == "U+201C"
RightQuote == "U+201D"

\* what \s matches
WS == {" ", "\t", "\n"}

LowerOf ==
    "A" :> "a" @@ "B" :> "b" @@ "C" :> "c" @@ "D" :> "d" @@ "E" :> "e" @@
    "F" :> "f" @@ "G" :> "g" @@ "H" :> "h" @@ "I" :> "i" @@ "J" :> "j" @@
    "K" :> "k" @@ "L" :> "l" @@ "M" :> "m" @@ "N" :> "n" @@ "O" :> "o" @@
    "P" :> "p" @@ "Q" :> "q" @@ "R" :> "r" @@ "S" :> "s" @@ "T" :> "t" @@
    "U" :> "u" @@ "V" :> "v" @@ "W" :> "w" @@ "X" :> "x" @@ "Y" :> "y" @@
    "Z" :> "z"

LowerChar(c) == IF c \in Upper THEN LowerOf[c] ELSE c

\* str.lower()
lower(s) == [k \in 1..Len(s) |-> LowerChar(s[k])]

\* lit matches at i under re.IGNORECASE
HasAtCI(s, i, lit) ==
    /\ i >= 1
    /\ i + Len(lit) - 1 <= Len(s)
    /\ \A k \in 1..Len(lit) : LowerChar(s[i + k - 1]) = LowerChar(lit[k])

\* Python truthiness of an optional str
Truthy(s) == s # None /\ s # <<>>

\* str.strip()
strip(s) ==
    LET K == {k \in 1..Len(s) : s[k] \notin WS}
    IN  IF K = {} THEN <<>>
        ELSE SubSeq(s, Min(K), CHOOSE k \in K : \A h \in K : h <= k)

\* the entities html.unescape replaces in the texts of this model; every "&" of
\* these texts starts one of them
Entities == <<
    [name |-> <<"&","q","u","o","t",";">>, char |-> "\""],
    [name |-> <<"&","a","m","p",";">>,     char |-> "&"] >>

\* html.unescape(s): one pass, left to right, no rescan of what it produced
RECURSIVE UnescapeFrom(_, _)
UnescapeFrom(s, i) ==
    IF i > Len(s) THEN <<>>
    ELSE LET E == {e \in 1..Len(Entities) : HasAt(s, i, Entities[e].name)}
         IN  IF E = {} THEN <<s[i]>> \o UnescapeFrom(s, i + 1)
             ELSE LET e == Min(E)
                  IN  <<Entities[e].char>> \o UnescapeFrom(s, i + Len(Entities[e].name))

html_unescape(s) == UnescapeFrom(s, 1)

\* the character class [a-zA-Z0-9._]
NameChars == Upper \cup Lower \cup Digit \cup {".", "_"}

OnInstagram == <<"o","n"," ","I","n","s","t","a","g","r","a","m">>
InstagramPostBy ==
    <<"I","n","s","t","a","g","r","a","m"," ","p","o","s","t"," ","b","y"," ">>
InstagramWord == <<"I","n","s","t","a","g","r","a","m">>
BrandName == <<"i","n","s","t","a","g","r","a","m">>

\* re.search(r'@([a-zA-Z0-9._]+)', s): group(1) of the leftmost match
SearchAtName(s) ==
    LET M == {i \in 1..(Len(s) - 1) : s[i] = "@" /\ s[i + 1] \in NameChars}
    IN  IF M = {} THEN None
        ELSE SubSeq(s, Min(M) + 1, RunEnd(s, Min(M) + 1, NameChars) - 1)

\* r'([a-zA-Z0-9._]+)\s+on Instagram' matches at i (the group is greedy, and
\* no shorter group can be followed by whitespace)
NameOnInstagramAt(s, i, ignorecase) ==
    /\ s[i] \in NameChars
    /\ LET e == RunEnd(s, i, NameChars)
           w == RunEnd(s, e, WS)
       IN  /\ w > e
           /\ IF ignorecase THEN HasAtCI(s, w, OnInstagram)
                            ELSE HasAt(s, w, OnInstagram)

\* re.search(r'([a-zA-Z0-9._]+)\s+on Instagram', s, re.IGNORECASE)
SearchNameOnInstagram(s) ==
    LET M == {i \in 1..Len(s) : NameOnInstagramAt(s, i, TRUE)}
    IN  IF M = {} THEN None
        ELSE SubSeq(s, Min(M), RunEnd(s, Min(M), NameChars) - 1)

\* re.search(r'Instagram post by ([a-zA-Z0-9._]+)', s, re.IGNORECASE)
SearchPostByName(s) ==
    LET n == Len(InstagramPostBy)
        M == {i \in 1..Len(s) :
                 /\ HasAtCI(s, i, InstagramPostBy)
                 /\ i + n <= Len(s)
                 /\ s[i + n] \in NameChars}
    IN  IF M = {} THEN None
        ELSE SubSeq(s, Min(M) + n, RunEnd(s, Min(M) + n, NameChars) - 1)

\* username_patterns of the meta-tag scan, in order
SearchUsernamePattern(p, s) ==
    CASE p = 1 -> SearchAtName(s)
      [] p = 2 -> SearchNameOnInstagram(s)
      [] p = 3 -> SearchPostByName(s)

\* the inner loop over username_patterns: some pattern's first match is a
\* username other than 'instagram'
MetaContentHasUsername(content_text) ==
    \E p \in 1..3 :
        LET username == SearchUsernamePattern(p, content_text)
        IN  Truthy(username) /\ lower(username) # BrandName

\* re.search(r'^(.+?)\s+on Instagram', s): the shortest non-empty group at the
\* start that whitespace and "on Instagram" follow ("." matches no newline)
SearchTitleOnInstagram(s) ==
    LET K == {k \in 1..(Len(s) - 1) :
                 /\ \A h \in 1..k : s[h] # "\n"
                 /\ s[k + 1] \in WS
                 /\ HasAt(s, RunEnd(s, k + 1, WS), OnInstagram)}
    IN  IF K = {} THEN None ELSE SubSeq(s, 1, Min(K))

\* r'Instagram post by (.+?)\s' matches at i with a group of k characters
TitlePostByAt(s, i, k) ==
    LET j == i + Len(InstagramPostBy)
    IN  /\ HasAt(s, i, InstagramPostBy)
        /\ k >= 1
        /\ j + k <= Len(s)
        /\ \A h \in j..(j + k - 1) : s[h] # "\n"
        /\ s[j + k] \in WS

\* re.search(r'Instagram post by (.+?)\s', s)
SearchTitlePostBy(s) ==
    LET M == {i \in 1..Len(s) : \E k \in 1..Len(s) : TitlePostByAt(s, i, k)}
    IN  IF M = {} THEN None
        ELSE LET i == Min(M)
                 k == Min({k \in 1..Len(s) : TitlePostByAt(s, i, k)})
             IN  SubSeq(s, i + Len(InstagramPostBy), i + Len(InstagramPostBy) + k - 1)

\* r'"([^"]+)"\s+<U+2022>.*Instagram' matches at i
TitleQuotedAt(s, i) ==
    /\ s[i] = "\""
    /\ LET e == RunEnd(s, i + 1, {c \in {s[k] : k \in 1..Len(s)} : c # "\""})
           w == RunEnd(s, e + 1, WS)
       IN  /\ e > i + 1
           /\ e <= Len(s)
           /\ w > e + 1
           /\ w <= Len(s)
           /\ s[w] = Bullet
           /\ \E h \in (w + 1)..Len(s) :
                  /\ HasAt(s, h, InstagramWord)
                  /\ \A g \in (w + 1)..(h - 1) : s[g] # "\n"

\* re.search(r'"([^"]+)"\s+<U+2022>.*Instagram', s)
SearchTitleQuoted(s) ==
    LET M == {i \in 1..Len(s) : TitleQuotedAt(s, i)}
    IN  IF M = {} THEN None
        ELSE SubSeq(s, Min(M) + 1,
                    RunEnd(s, Min(M) + 1, {c \in {s[k] : k \in 1..Len(s)} : c # "\""}) - 1)

\* the title patterns, in order
SearchTitlePattern(p, s) ==
    CASE p = 1 -> SearchTitleOnInstagram(s)
      [] p = 2 -> SearchTitlePostBy(s)
      [] p = 3 -> SearchAtName(s)
      [] p = 4 -> SearchTitleQuoted(s)

\* re.sub(r'[^a-zA-Z0-9._]', '', s)
CleanUsername(s) == SelectSeq(s, LAMBDA c : c \in NameChars)

\* the loop over the title patterns: some pattern's first match cleans to a
\* non-empty username
TitleHasUsername(title_text) ==
    \E p \in 1..4 :
        LET m == SearchTitlePattern(p, title_text)
        IN  m # None /\ CleanUsername(strip(m)) # <<>>

\* the quotation marks of r':\s*["\u201C\u0022]([^"\u201D\u0022]*)["\u201D\u0022]'
OpenQuotes  == {"\"", LeftQuote}
CloseQuotes == {"\"", RightQuote}

\* that pattern matches at i: the position where its group starts, 0 without a
\* match (the group runs to the first closing mark, which must be there)
CaptionStartAt(s, i) ==
    IF i > Len(s) \/ s[i] # ":" THEN 0
    ELSE LET q == RunEnd(s, i + 1, WS)
         IN  IF q <= Len(s) /\ s[q] \in OpenQuotes
                /\ \E e \in (q + 1)..Len(s) : s[e] \in CloseQuotes
             THEN q + 1 ELSE 0

\* re.search of that pattern: group(1) of the leftmost match
SearchQuotedCaption(s) ==
    LET M == {i \in 1..Len(s) : CaptionStartAt(s, i) > 0}
    IN  IF M = {} THEN None
        ELSE LET g == CaptionStartAt(s, Min(M))
             IN  SubSeq(s, g, Min({e \in g..Len(s) : s[e] \in CloseQuotes}) - 1)

-----------------------------------------------------------------------------
(* instagram_oembed.py: get_reel_creator, the page it scans                *)
(*                                                                         *)
(* A page is the things the regular expressions of get_reel_creator find   *)
(* in it: its thumbnail tags, its first window._sharedData blob, its       *)
(* script fragments in document order, its meta tags and its <title>.      *)
(* Fragments stand each on a line of its own and end with "}", so that no  *)
(* match spans two of them.                                                *)

ThumbKinds == <<"og:image", "twitter:image", "image_src">>

MetaFields == <<"og:title", "og:description", "description",
                "twitter:title", "twitter:description">>

\* a loop without the break: the last pattern that is present
ThumbnailUrlLast(thumbs) ==
    LET K == {k \in 1..Len(ThumbKinds) : thumbs[ThumbKinds[k]] # None}
    IN  IF K = {} THEN None ELSE thumbs[ThumbKinds[CHOOSE k \in K : \A h \in K : h <= k]]

\* the loop over thumbnail_patterns: the first pattern that is present
ThumbnailUrl(thumbs) ==
    LET K == {k \in 1..Len(ThumbKinds) : thumbs[ThumbKinds[k]] # None}
    IN  IF K = {} THEN None ELSE thumbs[ThumbKinds[Min(K)]]

\* a variant that is content with a username: C4 does not hold of it
SharedDataStrategyUsernameOnly(blob) ==
    IF blob.kind = "post" /\ Truthy(blob.username)
    THEN [outcome |-> "record", username |-> blob.username,
          author_id |-> blob.id, caption |-> <<>>]
    ELSE [outcome |-> "none"]

\* what "Pattern 1: window._sharedData" does with the blob the page holds:
\* a record of the owner, nothing, or an exception that leaves the function
SharedDataStrategy(blob) ==
    CASE blob.kind = "absent"     -> [outcome |-> "none"]    \* no match
      [] blob.kind = "badjson"    -> [outcome |-> "none"]    \* JSONDecodeError, caught
      [] blob.kind = "keyerror"   -> [outcome |-> "none"]    \* KeyError, caught
      [] blob.kind = "wrongtype"  -> [outcome |-> "raise"]   \* AttributeError / TypeError
      [] blob.kind = "nopostpage" -> [outcome |-> "none"]
      [] blob.kind = "emptyposts" -> [outcome |-> "none"]
      [] blob.kind = "post" ->
            IF Truthy(blob.username) /\ Truthy(blob.id)
            THEN IF blob.edges = "empty"
                 THEN [outcome |-> "raise"]                  \* [][0]: IndexError
                 ELSE [outcome |-> "record",
                       username |-> blob.username,
                       author_id |-> blob.id,
                       caption |-> IF blob.edges = "text" THEN blob.text ELSE <<>>]
            ELSE [outcome |-> "none"]

\* one match of re.findall: a tuple of two groups, or the str of the one group
TupleMatch(g1, g2, pos) == [tuple |-> TRUE,  g1 |-> g1, g2 |-> g2, pos |-> pos]
StrMatch(g1, pos)       == [tuple |-> FALSE, g1 |-> g1, g2 |-> <<>>, pos |-> pos]

AdditionalJson == <<"{",".",".",".","}">>

\* all matches of the fragments whose kind is in kinds, in document order
RECURSIVE FindallFrom(_, _, _)
FindallFrom(frags, k, kinds) ==
    IF k > Len(frags) THEN <<>>
    ELSE (IF frags[k].kind \in kinds THEN <<k>> ELSE <<>>)
         \o FindallFrom(frags, k + 1, kinds)

\* re.findall(script_patterns[p], content)
FindallScript(p, frags) ==
    LET at(kinds) == FindallFrom(frags, 1, kinds)
        of(ks, M(_)) == [n \in 1..Len(ks) |-> M(ks[n])]
    IN  CASE p = 1 -> of(at({"additional"}),
                         LAMBDA k : TupleMatch(AdditionalJson, frags[k].id, k))
          [] p = 2 -> of(at({"owner"}),
                         LAMBDA k : TupleMatch(frags[k].id, frags[k].name, k))
          [] p = 3 -> of(at({"user"}),
                         LAMBDA k : TupleMatch(frags[k].id, frags[k].name, k))
          [] p = 4 -> of(at({"applink"}),
                         LAMBDA k : StrMatch(frags[k].id, k))

\* re.findall(looser_patterns[p], content, re.IGNORECASE)
FindallLooser(p, frags) ==
    LET at(kinds) == FindallFrom(frags, 1, kinds)
        of(ks, M(_)) == [n \in 1..Len(ks) |-> M(ks[n])]
    IN  CASE p = 1 -> of(at({"user", "pk"}),
                         LAMBDA k : TupleMatch(frags[k].id, frags[k].name, k))
          [] p = 2 -> of(at({"owner", "id"}),
                         LAMBDA k : TupleMatch(frags[k].id, frags[k].name, k))
          [] p = 3 -> of(at({"urlpk"}),
                         LAMBDA k : TupleMatch(frags[k].name, frags[k].id, k))

NoPair == [found |-> FALSE, author_id |-> <<>>, username |-> <<>>,
           pattern |-> 0, pos |-> 0]

Pair(author_id, username, p, pos) ==
    [found |-> TRUE, author_id |-> author_id, username |-> username,
     pattern |-> p, pos |-> pos]

\* a variant that takes the pair of any pattern's tuple: C5 does not hold of it
RECURSIVE ScriptScanMatchesAnyPattern(_, _)
ScriptScanMatchesAnyPattern(p, matches) ==
    IF matches = <<>> THEN NoPair
    ELSE LET match == Head(matches)
         IN  IF match.tuple /\ Truthy(match.g1) /\ Truthy(match.g2)
             THEN Pair(match.g1, match.g2, p, match.pos)
             ELSE ScriptScanMatchesAnyPattern(p, Tail(matches))

\* "for match in matches" of the script_patterns loop
RECURSIVE ScriptScanMatches(_, _)
ScriptScanMatches(p, matches) ==
    IF matches = <<>> THEN NoPair
    ELSE LET match == Head(matches)
         IN  IF /\ match.tuple
                /\ (p = 2 \/ p = 3)        \* pattern == script_patterns[1] or [2]
                /\ Truthy(match.g1) /\ Truthy(match.g2)
             THEN Pair(match.g1, match.g2, p, match.pos)
             ELSE ScriptScanMatches(p, Tail(matches))

\* "for i, pattern in enumerate(script_patterns)"
RECURSIVE ScriptPatternsFrom(_, _)
ScriptPatternsFrom(p, frags) ==
    IF p > 4 THEN NoPair
    ELSE LET r == ScriptScanMatches(p, FindallScript(p, frags))
         IN  IF r.found THEN r ELSE ScriptPatternsFrom(p + 1, frags)

ScriptPatterns(frags) == ScriptPatternsFrom(1, frags)

\* 'pk' in pattern or '"id"' in pattern, for each of the looser_patterns
LooserPatternHasPk == <<TRUE, FALSE, TRUE>>
LooserPatternHasId == <<FALSE, TRUE, FALSE>>

\* username.lower() != 'instagram'
NotBrand(username) == lower(username) # BrandName

\* "for match in matches" of the looser_patterns loop
RECURSIVE LooserScanMatches(_, _)
LooserScanMatches(p, matches) ==
    IF matches = <<>> THEN NoPair
    ELSE LET match == Head(matches)
         IN  IF /\ match.tuple
                /\ (LooserPatternHasPk[p] \/ LooserPatternHasId[p])
                /\ Truthy(match.g1) /\ Truthy(match.g2)
                /\ NotBrand(match.g2)
             THEN Pair(match.g1, match.g2, 4 + p, match.pos)
             ELSE LooserScanMatches(p, Tail(matches))

\* "for i, pattern in enumerate(looser_patterns)"
RECURSIVE LooserPatternsFrom(_, _)
LooserPatternsFrom(p, frags) ==
    IF p > 3 THEN NoPair
    ELSE LET r == LooserScanMatches(p, FindallLooser(p, frags))
         IN  IF r.found THEN r ELSE LooserPatternsFrom(p + 1, frags)

LooserPatterns(frags) == LooserPatternsFrom(1, frags)

\* the loop over meta_patterns of the pattern strategies: title_text is the
\* content of the first of the first n meta fields that is present, caption_text
\* the quoted part of it after html.unescape
MetaTitleCaption(metas, n, stripped) ==
    LET K == {k \in 1..n : metas[MetaFields[k]] # None}
    IN  IF K = {} THEN [title |-> <<>>, caption |-> <<>>]
        ELSE LET meta_content == metas[MetaFields[Min(K)]]
                 group == SearchQuotedCaption(html_unescape(meta_content))
             IN  [title |-> meta_content,
                  caption |-> IF group = None THEN <<>>
                              ELSE IF stripped THEN strip(group) ELSE group]

\* "Method 3", the loop over the five meta_patterns: some meta tag that is
\* present holds a username
MetaTagsHaveUsername(metas) ==
    \E k \in 1..Len(MetaFields) :
        /\ metas[MetaFields[k]] # None
        /\ MetaContentHasUsername(metas[MetaFields[k]])

InstagramHome ==
    <<"h","t","t","p","s",":","/","/","w","w","w",".","i","n","s","t","a","g","r","a","m",".","c","o","m","/">>
EmbedPrefix == InstagramHome \o <<"p","/">>
EmbedSuffix == <<"/","e","m","b","e","d","/">>
BlockquoteOpen ==
    <<"<","b","l","o","c","k","q","u","o","t","e"," ","c","l","a","s","s","=","\"","i","n","s","t","a","g","r","a","m","-","m","e","d","i","a","\""," ","d","a","t","a","-","i","n","s","t","g","r","m","-","p","e","r","m","a","l","i","n","k","=","\"">>
BlockquoteHref == <<"\"",">","<","a"," ","h","r","e","f","=","\"">>
BlockquoteClose ==
    <<"\"",">","I","n","s","t","a","g","r","a","m"," ","p","o","s","t","<","/","a",">","<","/","b","l","o","c","k","q","u","o","t","e",">","<","s","c","r","i","p","t"," ","a","s","y","n","c"," ","s","r","c","=","\"","/","/","w","w","w",".","i","n","s","t","a","g","r","a","m",".","c","o","m","/","e","m","b","e","d",".","j","s","\"",">","<","/","s","c","r","i","p","t",">">>

\* what an f-string makes of a value: str(None) is 'None'
PyStr(x) == IF x = None THEN <<"N","o","n","e">> ELSE x

\* the dict the three record-returning places of get_reel_creator build
CreatorRecord(username, author_id, shortcode, caption, title, thumbnail_url, reel_url) ==
    [kind          |-> "record",
     author_name   |-> username,
     username      |-> username,
     author_id     |-> author_id,
     profile_link  |-> InstagramHome \o PyStr(username) \o <<"/">>,
     instagram_id  |-> shortcode,
     shortcode     |-> shortcode,
     caption       |-> caption,
     title         |-> title,
     author_url    |-> InstagramHome \o PyStr(username) \o <<"/">>,
     thumbnail_url |-> thumbnail_url,
     post_link     |-> reel_url,
     embed_link    |-> EmbedPrefix \o PyStr(shortcode) \o EmbedSuffix,
     html_embed    |-> BlockquoteOpen \o PyStr(reel_url) \o BlockquoteHref
                       \o PyStr(reel_url) \o BlockquoteClose,
     provider_name |-> "Instagram",
     provider_url  |-> "https://www.instagram.com",
     version       |-> "1.0",
     type          |-> "rich"]

ErrAuthorId == "Could not extract author ID from Instagram post"
ErrCreator  == "Could not extract creator information"
ErrRequest  == "Request failed"
ErrParsing  == "Parsing failed"

ErrorResult(msg) == [kind |-> "error", error |-> msg]
NoResult == [kind |-> "none"]

-----------------------------------------------------------------------------
(* instagram_oembed.py: extract_from_embed_url                             *)
(* api_server.py: send_response and the fields handle_instagram_oembed adds *)

\* what response.json() gives: a dict (items maps its keys to their values), a
\* non-empty list, or null
JsonDict(items) == [type |-> "dict", items |-> items]
JsonList == [type |-> "list", items |-> <<>>]
PyNone   == [type |-> "None", items |-> <<>>]

HttpOk == 200

\* extract_from_embed_url: what it returns for the endpoint's reply
extract_from_embed_url(reply) ==
    CASE reply.kind = "exception" -> PyNone             \* requests.get raises
      [] reply.kind = "badjson"   -> PyNone             \* response.json() raises
      [] reply.kind = "response"  ->
             IF reply.status_code = HttpOk THEN reply.json ELSE PyNone

\* "if oembed_data:"
DataTruthy(d) == d.type = "list" \/ (d.type = "dict" /\ DOMAIN d.items # {})

\* members of the ranges U+00C0-U+024F and U+1E00-U+1EFF
LatinExtended == {"U+00C0", "U+00E9", "U+024F", "U+1E00", "U+1EFF"}

\* the character class [a-zA-Z0-9_\u00c0-\u024f\u1e00-\u1eff]
HashtagChars == Upper \cup Lower \cup Digit \cup {"_"} \cup LatinExtended

\* re.findall(hashtag_pattern, s) from position i on: the matches do not overlap
RECURSIVE FindallHashtagsFrom(_, _)
FindallHashtagsFrom(s, i) ==
    IF i >= Len(s) THEN <<>>
    ELSE IF s[i] = "#" /\ s[i + 1] \in HashtagChars
         THEN LET e == RunEnd(s, i + 1, HashtagChars)
              IN  <<SubSeq(s, i, e - 1)>> \o FindallHashtagsFrom(s, e)
         ELSE FindallHashtagsFrom(s, i + 1)

\* [tag[1:] for tag in hashtags]
OembedHashtags(caption) ==
    LET hashtags == FindallHashtagsFrom(caption, 1)
    IN  [n \in 1..Len(hashtags) |-> Tail(hashtags[n])]

\* d[key] = value
SetItem(d, key, value) == (key :> value) @@ d

\* "if from in d and key not in d: d[key] = d[from]"
SetDefault(d, key, from) ==
    IF from \in DOMAIN d /\ key \notin DOMAIN d THEN SetItem(d, key, d[from]) ELSE d

\* lines 96-98
WithShortcode(d, shortcode) ==
    IF Truthy(shortcode)
    THEN SetItem(SetItem(d, "shortcode", shortcode), "instagram_id", shortcode)
    ELSE d

\* lines 111-116
WithHashtags(d) ==
    SetItem(d, "hashtags",
            IF "caption" \in DOMAIN d /\ Truthy(d["caption"])
            THEN OembedHashtags(d["caption"]) ELSE <<>>)

\* lines 119-120
WithEmbedLink(d, shortcode) ==
    IF Truthy(shortcode)
    THEN SetItem(d, "embed_link", EmbedPrefix \o shortcode \o EmbedSuffix)
    ELSE d

\* lines 101-108
WithDefaults(d) ==
    SetDefault(SetDefault(SetDefault(d, "username", "author_name"),
                          "profile_link", "author_url"),
               "caption", "title")

\* lines 94-122: the keys handle_instagram_oembed sets in the dict oembed_data
OembedFields(items, shortcode, post_url) ==
    SetItem(WithEmbedLink(WithHashtags(WithDefaults(WithShortcode(items, shortcode))),
                          shortcode),
            "post_link", post_url)

\* send_response: the JSON object it prints (its timestamp left out)
send_response(request_id, success, data, error) ==
    IF success /\ data.type # "None"
    THEN [id |-> request_id, success |-> success, data |-> data.items]
    ELSE IF ~success /\ error # ""
         THEN [id |-> request_id, success |-> success, error |-> error]
         ELSE [id |-> request_id, success |-> success]

-----------------------------------------------------------------------------
(* collect_real_posts.py: validate_instagram_url, check_url_exists *)

InstagramCom == <<"i","n","s","t","a","g","r","a","m",".","c","o","m","/">>

\* re.match(r'https?://(?:www\.)?instagram\.com/<tag>/([A-Za-z0-9_-]+)/?', url)
MatchInstagramUrl(url, tag) ==
    \E scheme \in {<<"h","t","t","p">>, <<"h","t","t","p","s">>},
       www \in {<<>>, <<"w","w","w",".">>} :
        LET head == scheme \o <<":","/","/">> \o www \o InstagramCom \o tag \o <<"/">>
        IN  /\ HasAt(url, 1, head)
            /\ Len(url) > Len(head)
            /\ url[Len(head) + 1] \in ShortcodeChars

validate_instagram_url(url) ==
    IF MatchInstagramUrl(url, <<"p">>)
    THEN [post_type |-> "post", is_valid |-> TRUE]
    ELSE IF MatchInstagramUrl(url, <<"r","e","e","l">>)
         THEN [post_type |-> "reel", is_valid |-> TRUE]
         ELSE [post_type |-> "None", is_valid |-> FALSE]

\* check_url_exists: what it returns for the endpoint's reply
check_url_exists(reply) ==
    CASE reply.kind = "exception" -> FALSE
      [] reply.kind = "response"  -> reply.status_code = HttpOk

-----------------------------------------------------------------------------
(* Inputs *)

MaxUrlPieces == 5

\* the pieces URLs are put together from
UrlPieces == {
    <<"/","p","/">>,
    <<"/","r","e","e","l","/">>,
    <<"/">>,
    <<"p">>,
    <<"A","b","-">>,
    <<"x","_","9">>,
    <<"?">> }

Urls == {Flatten(ps) : ps \in UNION {[1..n -> UrlPieces] : n \in 0..MaxUrlPieces}}

\* a post, a reel, and a URL that is neither
PostUrl == InstagramHome \o <<"p","/","A","b","-","/">>
ReelUrl == InstagramHome \o <<"r","e","e","l","/","x","_","9","/">>
TvUrl   == InstagramHome \o <<"t","v","/","A","b","-","/">>

CreatorUrls == {PostUrl, ReelUrl, TvUrl}

\* a page holds at most this many things (the thumbnail tags, which count as
\* one, the blob, fragments, meta tags, title)
MaxPageItems == 2

Alice == <<"a","l","i","c","e">>
MixedCaseBrand == <<"I","n","s","t","a","g","r","a","m">>
HiFun == <<"h","i"," ","#","f","u","n">>

ThumbSets ==
    LET content == [k \in {ThumbKinds[n] : n \in 1..3} |->
                       CASE k = "og:image"      -> <<"o","g",".","j","p","g">>
                         [] k = "twitter:image" -> <<"t","w",".","j","p","g">>
                         [] k = "image_src"     -> <<"s","r","c",".","j","p","g">>]
    IN  {[k \in DOMAIN content |-> IF k \in S THEN content[k] ELSE None] :
            S \in SUBSET DOMAIN content}

Blob(kind, username, id, edges) ==
    [kind |-> kind, username |-> username, id |-> id, edges |-> edges, text |-> HiFun]

NoBlob == Blob("absent", <<>>, <<>>, "missing")

Blobs ==
    {Blob(k, <<>>, <<>>, "missing") :
        k \in {"absent", "badjson", "keyerror", "wrongtype", "nopostpage", "emptyposts"}}
    \cup {Blob("post", Alice, <<"7">>, e) : e \in {"missing", "empty", "text"}}
    \cup {Blob("post", u, i, "text") : u \in {<<>>, Alice}, i \in {<<>>, <<"7">>}}

FragShapes ==
    ({"owner", "user", "pk", "id"} \X {Alice, MixedCaseBrand})
    \cup ({"additional", "applink"} \X {<<>>})
    \cup {<<"urlpk", Alice>>}

PosDigits == <<"1","2","3","4","5","6","7","8","9">>

\* the fragment sequences of at most n fragments; the digits of a fragment's id
\* say where it stands
FragSeqs == [n \in 0..MaxPageItems |->
    {[k \in 1..Len(ks) |-> [kind |-> ks[k][1], name |-> ks[k][2], id |-> <<PosDigits[k]>>]] :
        ks \in UNION {[1..m -> FragShapes] : m \in 0..n}}]

MetaContents == {
    <<"@","a","l","i","c","e">>,
    <<"@","I","n","s","t","a","g","r","a","m">>,
    <<"@","i","n","s","t","a","g","r","a","m"," ","@","b","o","b">>,
    <<"b","o","b"," ","o","n"," ","I","n","s","t","a","g","r","a","m",":"," ","&","q","u","o","t",";","h","i"," ","#","f","u","n","&","q","u","o","t",";">>,
    <<"I","n","s","t","a","g","r","a","m"," ","p","o","s","t"," ","b","y"," ","a","l","i","c","e">>,
    <<"h","e","l","l","o">> }

MetaFieldSet == {MetaFields[k] : k \in 1..Len(MetaFields)}

MetaCount(metas) == Cardinality({f \in DOMAIN metas : metas[f] # None})

NoMetas == [f \in MetaFieldSet |-> None]

\* the meta tags of a page with at most n of them
MetaSets == [n \in 0..MaxPageItems |->
    {m : m \in {ms \in [MetaFieldSet -> MetaContents \cup {None}] : MetaCount(ms) <= n}}]

TitleTexts == {
    <<"a","l","i","c","e"," ","o","n"," ","I","n","s","t","a","g","r","a","m">>,
    <<"@","i","n","s","t","a","g","r","a","m">>,
    <<"!","!","!"," ","o","n"," ","I","n","s","t","a","g","r","a","m">>,
    <<"I","n","s","t","a","g","r","a","m">>,
    <<"I","n","s","t","a","g","r","a","m"," ","p","o","s","t"," ","b","y"," ","b","o","b"," ","n","o","w">>,
    <<"\"","a","l","i","c","e","\""," ",Bullet," ","I","n","s","t","a","g","r","a","m">> }

Titles == [n \in 0..MaxPageItems |-> IF n = 0 THEN {None} ELSE TitleTexts \cup {None}]

\* the page before anything of it was scanned
BlankPage ==
    [thumbs |-> [k \in {ThumbKinds[n] : n \in 1..3} |-> None], blob |-> NoBlob,
     frags |-> <<>>, metas |-> NoMetas, title |-> None, read |-> {}]

PageItems(page) ==
    (IF \A k \in DOMAIN page.thumbs : page.thumbs[k] = None THEN 0 ELSE 1)
    + (IF page.blob.kind = "absent" THEN 0 ELSE 1)
    + Len(page.frags)
    + MetaCount(page.metas)
    + (IF page.title = None THEN 0 ELSE 1)

\* what is left of the page's size for the part scanned next
Room(page) == MaxPageItems - PageItems(page)

\* the URL and the author of a post the oEmbed endpoint is asked about
Abc123Url == <<"h","t","t","p","s",":","/","/">> \o InstagramCom
                 \o <<"p","/","A","B","C","1","2","3","/">>

OembedPostUrls == {Abc123Url, ReelUrl, TvUrl}

MaxCaptionPieces == 3

\* the pieces titles are put together from
CaptionPieces == {
    <<"H","e","l","l","o"," ">>,
    <<"#","f","u","n"," ">>,
    <<"@","b","o","b">>,
    <<"#">>,
    <<"#","c","a","f","U+00E9","-","x"," ">> }

Captions ==
    {Flatten(ps) : ps \in UNION {[1..n -> CaptionPieces] : n \in 0..MaxCaptionPieces}}

Absent == <<"<absent>">>

\* a dict with the keys that are not Absent
DictOf(all) == [k \in {k \in DOMAIN all : all[k] # Absent} |-> all[k]]

AliceHome == InstagramHome \o Alice \o <<"/">>

OembedDicts ==
    {DictOf([author_name |-> names[1], username |-> names[2],
             author_url |-> links[1], profile_link |-> links[2],
             title |-> title, caption |-> caption]) :
        names \in {<<Absent, Absent>>, <<Alice, Absent>>, <<Alice, <<"b","o","b">> >>},
        links \in {<<Absent, Absent>>, <<AliceHome, Absent>>, <<AliceHome, InstagramHome>>},
        title \in Captions \cup {Absent, None},
        caption \in {Absent, <<>>, <<"#","o","l","d">>}}

HttpNotFound == 404

OembedReplies ==
    {[kind |-> "exception"], [kind |-> "badjson"]}
    \cup {[kind |-> "response", status_code |-> HttpNotFound, json |-> PyNone]}
    \cup {[kind |-> "response", status_code |-> HttpOk, json |-> j] :
             j \in {PyNone, JsonList} \cup {JsonDict(d) : d \in OembedDicts}}

RequestId == "req-1"

MaxRows == 2

\* what the post_url column of a row holds; None in a row that is too short
RowUrls == {
    None,
    <<>>,
    <<" ">>,
    PostUrl,
    <<" ">> \o PostUrl \o <<"\n">>,
    <<"h","t","t","p",":","/","/">> \o InstagramCom \o <<"r","e","e","l","/","x","_","9">>,
    TvUrl,
    InstagramCom \o <<"p","/","A","b","-","/">>,
    <<"h","t","t","p","s",":","/","/","e","v","i","l",".","e","x","a","m","p","l","e","/","p","/","A","b","-","/">> }

RowSeqs == UNION {[1..n -> {[post_url |-> u] : u \in RowUrls}] : n \in 0..MaxRows}

ExistsReplies ==
    {[kind |-> "exception"]}
    \cup {[kind |-> "response", status_code |-> c] : c \in {HttpOk, HttpNotFound}}

-----------------------------------------------------------------------------
(* The shortcode extractor as a program of its own *)

ScIdle == sc_pc = "idle" /\ sc_url = <<>> /\ sc_result = None

CrIdle ==
    /\ cr_pc = "idle"
    /\ cr_url = <<>>
    /\ cr_shortcode = None
    /\ cr_page = BlankPage
    /\ cr_thumbnail_url = None
    /\ cr_tried = <<>>
    /\ cr_result = NoResult

OeIdle == oe_pc = "idle" /\ oe_post_url = None /\ oe_data = PyNone /\ stdout = <<>>

VaIdle == va_pc = "idle" /\ va_rows = <<>> /\ va_validated = <<>> /\ va_saved = <<>>

SpIdle ==
    /\ sp_pc = "idle"
    /\ sp_taken = 0
    /\ sp_post_index = 0
    /\ sp_post_count = 0
    /\ sp_reel_count = 0

PpIdle ==
    /\ pp_pc = "idle"
    /\ pp_profiles = 0
    /\ pp_post_url = None
    /\ pp_results = <<>>
    /\ pp_processed = 0
    /\ pp_sink = <<>>
    /\ pp_printed = <<>>
    /\ pp_interrupted = FALSE

PaIdle ==
    /\ pa_pc = "idle"
    /\ pa_profiles = 0
    /\ pa_i = 0
    /\ pa_post_data = None
    /\ pa_results = <<>>
    /\ pa_sink = <<>>
    /\ pa_net = <<>>
    /\ pa_interrupted = FALSE

PfIdle ==
    /\ pf_pc = "idle"
    /\ pf_profiles = 0
    /\ pf_replies = <<>>
    /\ pf_i = 0
    /\ pf_tasks = <<>>
    /\ pf_results = <<>>
    /\ pf_sink = <<>>
    /\ pf_interrupted = FALSE
    /\ pf_successful = 0
    /\ pf_failed = 0

ApiIdle ==
    /\ api_pc = "idle"
    /\ api_imported = FALSE
    /\ api_read = <<>>
    /\ api_stdout = <<>>

\* no exception: the None of last_exception
NoException == [ok |-> FALSE, text |-> None, call |-> 0]

RtIdle ==
    /\ rt_pc = "idle"
    /\ rt_max_retries = 0
    /\ rt_initial_delay = 0
    /\ rt_attempt = 0
    /\ rt_last_exception = NoException
    /\ rt_calls = <<>>
    /\ rt_slept = <<>>
    /\ rt_end = [how |-> "running", what |-> NoException]

AnIdle ==
    /\ an_pc = "idle"
    /\ an_reel_data = <<>>
    /\ an_analysis = <<>>

DpIdle ==
    /\ dp_pc = "idle"
    /\ dp_path = "none"
    /\ dp_input = <<>>
    /\ dp_record = <<>>

SrIdle ==
    /\ sr_pc = "idle"
    /\ sr_taken = 0
    /\ sr_post = <<>>
    /\ sr_posts = <<>>
    /\ sr_reels = <<>>
    /\ sr_post_count = 0
    /\ sr_reel_count = 0
    /\ sr_result = <<>>

RwIdle ==
    /\ rw_pc = "idle"
    /\ rw_writer = "none"
    /\ rw_rows = <<>>
    /\ rw_sink = <<>>

HsIdle ==
    /\ hs_pc = "idle"
    /\ hs_argv = <<>>
    /\ hs_original_argv = <<>>
    /\ hs_params = <<>>
    /\ hs_handled = 0
    /\ hs_seen = <<>>

LrIdle ==
    /\ lr_pc = "idle"
    /\ lr_mode = ""
    /\ lr_files = <<>>
    /\ lr_lines = <<>>
    /\ lr_original = <<>>
    /\ lr_read = <<>>
    /\ lr_end = ""

\* the batch scripts other than p are not running
BatchIdle(p) ==
    /\ IF p = "scrape_instagram_profile" THEN TRUE ELSE SpIdle
    /\ IF p = "process_profiles" THEN TRUE ELSE PpIdle
    /\ IF p = "process_profiles_auto" THEN TRUE ELSE PaIdle
    /\ IF p = "process_all_profiles" THEN TRUE ELSE PfIdle
    /\ IF p = "api_server" THEN TRUE ELSE ApiIdle
    /\ IF p = "exponential_backoff_retry" THEN TRUE ELSE RtIdle
    /\ IF p = "analyze_content" THEN TRUE ELSE AnIdle
    /\ IF p = "discover_post" THEN TRUE ELSE DpIdle
    /\ IF p = "scrape_result" THEN TRUE ELSE SrIdle
    /\ IF p = "write_rows" THEN TRUE ELSE RwIdle
    /\ IF p = "scraper_request" THEN TRUE ELSE HsIdle
    /\ IF p = "limited_run" THEN TRUE ELSE LrIdle

\* what script p does not touch of the batch scripts
BatchFrame(p) ==
    /\ IF p = "scrape_instagram_profile" THEN TRUE ELSE UNCHANGED spVars
    /\ IF p = "process_profiles" THEN TRUE ELSE UNCHANGED ppVars
    /\ IF p = "process_profiles_auto" THEN TRUE ELSE UNCHANGED paVars
    /\ IF p = "process_all_profiles" THEN TRUE ELSE UNCHANGED pfVars
    /\ IF p = "api_server" THEN TRUE ELSE UNCHANGED apiVars
    /\ IF p = "exponential_backoff_retry" THEN TRUE ELSE UNCHANGED rtVars
    /\ IF p = "analyze_content" THEN TRUE ELSE UNCHANGED anVars
    /\ IF p = "discover_post" THEN TRUE ELSE UNCHANGED dpVars
    /\ IF p = "scrape_result" THEN TRUE ELSE UNCHANGED srVars
    /\ IF p = "write_rows" THEN TRUE ELSE UNCHANGED rwVars
    /\ IF p = "scraper_request" THEN TRUE ELSE UNCHANGED hsVars
    /\ IF p = "limited_run" THEN TRUE ELSE UNCHANGED lrVars

\* the scripts that are no batch are not running
SingleIdle == ScIdle /\ CrIdle /\ OeIdle /\ VaIdle

SingleFrame == UNCHANGED <<scVars, crVars, oeVars, vaVars>>

ScInit ==
    /\ prog = "extract_shortcode_from_url"
    /\ requests = <<>>
    /\ sc_pc = "call"
    /\ sc_url \in Urls
    /\ sc_result = None
    /\ CrIdle
    /\ OeIdle
    /\ VaIdle
    /\ BatchIdle("none")

ScExtract ==
    /\ prog = "extract_shortcode_from_url"
    /\ sc_pc = "call"
    /\ sc_result' = extract_shortcode_from_url(sc_url)
    /\ sc_pc' = "done"
    /\ UNCHANGED <<prog, requests, sc_url, crVars, oeVars, vaVars, batchVars>>

-----------------------------------------------------------------------------
(* get_reel_creator(reel_url) *)

CrInit ==
    /\ prog = "get_reel_creator"
    /\ requests = <<>>
    /\ ScIdle
    /\ cr_pc = "call"
    /\ cr_url \in CreatorUrls
    /\ cr_shortcode = None
    /\ cr_page = BlankPage
    /\ cr_thumbnail_url = None
    /\ cr_tried = <<>>
    /\ cr_result = NoResult
    /\ OeIdle
    /\ VaIdle
    /\ BatchIdle("none")

CrFrame == UNCHANGED <<prog, scVars, cr_url, oeVars, vaVars, batchVars>>

CrReturn(result) ==
    /\ cr_result' = result
    /\ cr_pc' = "done"

\* lines 62-81: the shortcode is extracted, and nothing is made of its absence
CrShortcode ==
    /\ cr_pc = "call"
    /\ cr_shortcode' = extract_shortcode_from_url(cr_url)
    /\ cr_pc' = "fetch"
    /\ UNCHANGED <<requests, cr_page, cr_thumbnail_url, cr_tried, cr_result>>
    /\ CrFrame

\* lines 83-87: requests.get and raise_for_status raise a RequestException
CrFetchFails ==
    /\ cr_pc = "fetch"
    /\ requests' = Append(requests, [by |-> "get_reel_creator", url |-> cr_url])
    /\ CrReturn(ErrorResult(ErrRequest))
    /\ UNCHANGED <<cr_shortcode, cr_page, cr_thumbnail_url, cr_tried>>
    /\ CrFrame

\* lines 83-116: the page arrives and the thumbnail is looked up
CrFetch ==
    /\ cr_pc = "fetch"
    /\ requests' = Append(requests, [by |-> "get_reel_creator", url |-> cr_url])
    /\ \E thumbs \in ThumbSets, blob \in Blobs :
           LET page == [BlankPage EXCEPT !.thumbs = thumbs, !.blob = blob]
           IN  /\ PageItems(page) <= MaxPageItems
               /\ cr_page' = page
               /\ cr_thumbnail_url' = ThumbnailUrl(thumbs)
    /\ cr_pc' = "shared"
    /\ UNCHANGED <<cr_shortcode, cr_tried, cr_result>>
    /\ CrFrame

\* a variant that goes on to the script patterns whatever it found: C8 does
\* not hold of it
CrSharedDataGoesOn ==
    /\ cr_pc = "shared"
    /\ cr_tried' = Append(cr_tried, "embedded")
    /\ cr_pc' = "script"
    /\ UNCHANGED <<requests, cr_shortcode, cr_page, cr_thumbnail_url, cr_result>>
    /\ CrFrame

\* lines 118-164: the embedded-script strategy, window._sharedData
CrSharedData ==
    /\ cr_pc = "shared"
    /\ cr_tried' = Append(cr_tried, "embedded")
    /\ LET r == SharedDataStrategy(cr_page.blob)
       IN  CASE r.outcome = "record" ->
                    CrReturn(CreatorRecord(r.username, r.author_id, cr_shortcode,
                                           r.caption, r.caption, cr_thumbnail_url, cr_url))
             [] r.outcome = "raise" ->          \* line 360: except Exception
                    CrReturn(ErrorResult(ErrParsing))
             [] r.outcome = "none" ->
                    cr_pc' = "script" /\ UNCHANGED cr_result
    /\ UNCHANGED <<requests, cr_shortcode, cr_page, cr_thumbnail_url>>
    /\ CrFrame

\* lines 166-233: the pattern-script strategy, script_patterns
CrScriptPatterns ==
    /\ cr_pc = "script"
    /\ cr_tried' = Append(cr_tried, "pattern")
    /\ \E frags \in FragSeqs[Room(cr_page)] :
           LET page == [cr_page EXCEPT !.frags = frags, !.read = @ \cup {"frags"}]
               r == ScriptPatterns(frags)
           IN  IF r.found
               THEN \E metas \in MetaSets[Room(page)] :
                        LET m == MetaTitleCaption(metas, 3, FALSE)
                        IN  /\ cr_page' = [page EXCEPT !.metas = metas,
                                                       !.read = @ \cup {"metas"}]
                            /\ CrReturn(CreatorRecord(r.username, r.author_id,
                                   cr_shortcode, m.caption, m.title,
                                   cr_thumbnail_url, cr_url))
               ELSE /\ cr_page' = page
                    /\ cr_pc' = "looser"
                    /\ UNCHANGED cr_result
    /\ UNCHANGED <<requests, cr_shortcode, cr_thumbnail_url>>
    /\ CrFrame

\* lines 235-298: the pattern-script strategy, looser_patterns
CrLooserPatterns ==
    /\ cr_pc = "looser"
    /\ LET r == LooserPatterns(cr_page.frags)
       IN  IF r.found
           THEN \E metas \in MetaSets[Room(cr_page)] :
                    LET m == MetaTitleCaption(metas, 2, TRUE)
                    IN  /\ cr_page' = [cr_page EXCEPT !.metas = metas,
                                                      !.read = @ \cup {"metas"}]
                        /\ CrReturn(CreatorRecord(r.username, r.author_id,
                               cr_shortcode, m.caption, m.title,
                               cr_thumbnail_url, cr_url))
           ELSE /\ cr_pc' = "meta"
                /\ UNCHANGED <<cr_page, cr_result>>
    /\ UNCHANGED <<requests, cr_shortcode, cr_thumbnail_url, cr_tried>>
    /\ CrFrame

\* lines 300-329: the metadata-only strategy, the meta tags
CrMetaTags ==
    /\ cr_pc = "meta"
    /\ cr_tried' = Append(cr_tried, "metadata")
    /\ \E metas \in MetaSets[Room(cr_page)] :
           /\ cr_page' = [cr_page EXCEPT !.metas = metas, !.read = @ \cup {"metas"}]
           /\ IF MetaTagsHaveUsername(metas)
              THEN CrReturn(ErrorResult(ErrAuthorId))
              ELSE cr_pc' = "title" /\ UNCHANGED cr_result
    /\ UNCHANGED <<requests, cr_shortcode, cr_thumbnail_url>>
    /\ CrFrame

\* lines 331-356: the metadata-only strategy, the page title
CrPageTitle ==
    /\ cr_pc = "title"
    /\ \E title \in Titles[Room(cr_page)] :
           /\ cr_page' = [cr_page EXCEPT !.title = title, !.read = @ \cup {"title"}]
           /\ IF title # None /\ TitleHasUsername(title)
              THEN CrReturn(ErrorResult(ErrAuthorId))
              ELSE CrReturn(ErrorResult(ErrCreator))
    /\ UNCHANGED <<requests, cr_shortcode, cr_thumbnail_url, cr_tried>>
    /\ CrFrame

CrNext ==
    \/ CrShortcode
    \/ CrFetchFails
    \/ CrFetch
    \/ CrSharedData
    \/ CrScriptPatterns
    \/ CrLooserPatterns
    \/ CrMetaTags
    \/ CrPageTitle

-----------------------------------------------------------------------------
(* api_server.py: handle_instagram_oembed(request_id, params) *)

OeInit ==
    /\ prog = "handle_instagram_oembed"
    /\ requests = <<>>
    /\ ScIdle
    /\ CrIdle
    /\ VaIdle
    /\ oe_pc = "call"
    /\ oe_post_url \in OembedPostUrls \cup {None, <<>>}
    /\ oe_data = PyNone
    /\ stdout = <<>>
    /\ BatchIdle("none")

OeFrame == UNCHANGED <<prog, scVars, crVars, vaVars, oe_post_url, batchVars>>

\* lines 83-86: no postUrl
OeRequired ==
    /\ oe_pc = "call"
    /\ ~Truthy(oe_post_url)
    /\ stdout' = Append(stdout,
           send_response(RequestId, FALSE, PyNone, "Post URL is required"))
    /\ oe_pc' = "done"
    /\ UNCHANGED <<requests, oe_data>>
    /\ OeFrame

\* line 91: extract_from_embed_url(post_url) asks the endpoint
OeFetch ==
    /\ oe_pc = "call"
    /\ Truthy(oe_post_url)
    /\ requests' = Append(requests,
           [by |-> "extract_from_embed_url", url |-> oe_post_url])
    /\ \E reply \in OembedReplies : oe_data' = extract_from_embed_url(reply)
    /\ oe_pc' = "fetched"
    /\ UNCHANGED stdout
    /\ OeFrame

\* lines 93-131: the response
OeRespond ==
    /\ oe_pc = "fetched"
    /\ IF DataTruthy(oe_data)
       THEN IF oe_data.type = "dict"
            THEN LET shortcode == extract_shortcode_from_url(oe_post_url)
                     data == JsonDict(OembedFields(oe_data.items, shortcode, oe_post_url))
                 IN  /\ oe_data' = data
                     /\ stdout' = Append(stdout,
                            send_response(RequestId, TRUE, data, ""))
            ELSE \* a list takes no str key: TypeError, line 129
                 /\ stdout' = Append(stdout,
                        send_response(RequestId, FALSE, PyNone, "oEmbed processing error"))
                 /\ UNCHANGED oe_data
       ELSE /\ stdout' = Append(stdout,
                   send_response(RequestId, FALSE, PyNone, "Failed to fetch oEmbed data"))
            /\ UNCHANGED oe_data
    /\ oe_pc' = "done"
    /\ UNCHANGED requests
    /\ OeFrame

OeNext == OeRequired \/ OeFetch \/ OeRespond

-----------------------------------------------------------------------------
(* collect_real_posts.py: validate_collected_urls(input_file) *)

VaInit ==
    /\ prog = "validate_collected_urls"
    /\ requests = <<>>
    /\ ScIdle
    /\ CrIdle
    /\ OeIdle
    /\ va_pc = "loop"
    /\ va_rows \in RowSeqs
    /\ va_validated = <<>>
    /\ va_saved = <<>>
    /\ BatchIdle("none")

VaFrame == UNCHANGED <<prog, scVars, crVars, oeVars, va_rows, batchVars>>

\* the row the loop is at
VaRow == va_rows[Len(va_validated) + 1]

VaAtRow == va_pc = "loop" /\ Len(va_validated) < Len(va_rows)

VaAppend(status, post_type) ==
    va_validated' = Append(va_validated,
        [post_url |-> VaRow.post_url, status |-> status, post_type |-> post_type])

\* line 82: None.strip() raises AttributeError, which nothing catches
VaRowRaises ==
    /\ VaAtRow
    /\ VaRow.post_url = None
    /\ va_pc' = "raised"
    /\ UNCHANGED <<requests, va_validated, va_saved>>
    /\ VaFrame

\* lines 85-89: no URL in the row
VaRowPending ==
    /\ VaAtRow
    /\ VaRow.post_url # None
    /\ ~Truthy(strip(VaRow.post_url))
    /\ VaAppend("pending", "")
    /\ UNCHANGED <<requests, va_pc, va_saved>>
    /\ VaFrame

\* lines 93-109: a URL of the right form is looked up
VaRowChecked ==
    /\ VaAtRow
    /\ VaRow.post_url # None
    /\ LET post_url == strip(VaRow.post_url)
           v == validate_instagram_url(post_url)
       IN  /\ Truthy(post_url)
           /\ v.is_valid
           /\ requests' = Append(requests, [by |-> "check_url_exists", url |-> post_url])
           /\ \E reply \in ExistsReplies :
                  IF check_url_exists(reply)
                  THEN VaAppend("valid", v.post_type)
                  ELSE VaAppend("not_found", v.post_type)
    /\ UNCHANGED <<va_pc, va_saved>>
    /\ VaFrame

\* lines 110-114: a URL of another form
VaRowInvalid ==
    /\ VaAtRow
    /\ VaRow.post_url # None
    /\ LET post_url == strip(VaRow.post_url)
       IN  /\ Truthy(post_url)
           /\ ~validate_instagram_url(post_url).is_valid
    /\ VaAppend("invalid_format", "")
    /\ UNCHANGED <<requests, va_pc, va_saved>>
    /\ VaFrame

\* lines 118-124: the rows are written to profile_posts_validated.csv
VaSave ==
    /\ va_pc = "loop"
    /\ Len(va_validated) = Len(va_rows)
    /\ va_saved' = va_validated
    /\ va_pc' = "done"
    /\ UNCHANGED <<requests, va_validated>>
    /\ VaFrame

VaNext == VaRowRaises \/ VaRowPending \/ VaRowChecked \/ VaRowInvalid \/ VaSave

-----------------------------------------------------------------------------
(* instagram_scraper.py: the post loop of scrape_instagram_profile *)

\* line 436: the limit the loop tests post_index against
PostLimit == 100

\* the posts a profile's listing has at most
MaxListing == 102

SpInit ==
    /\ prog = "scrape_instagram_profile"
    /\ requests = <<>>
    /\ SingleIdle
    /\ BatchIdle("scrape_instagram_profile")
    /\ sp_pc = "loop"
    /\ sp_taken = 0
    /\ sp_post_index = 0
    /\ sp_post_count = 0
    /\ sp_reel_count = 0

SpFrame ==
    /\ prog = "scrape_instagram_profile"
    /\ UNCHANGED <<prog, requests>>
    /\ SingleFrame
    /\ BatchFrame("scrape_instagram_profile")

\* line 396: enumerate(profile.get_posts()) yields the next post
SpNextPost ==
    /\ sp_pc = "loop"
    /\ sp_taken < MaxListing
    /\ sp_post_index' = sp_taken
    /\ sp_taken' = sp_taken + 1
    /\ sp_pc' = "post"
    /\ UNCHANGED <<sp_post_count, sp_reel_count>>
    /\ SpFrame

\* lines 396, 444-446: the listing is exhausted, or fetching its next page
\* raises and the outer handler ends the loop
SpListingEnds ==
    /\ sp_pc = "loop"
    /\ sp_pc' = "done"
    /\ UNCHANGED <<sp_taken, sp_post_index, sp_post_count, sp_reel_count>>
    /\ SpFrame

\* lines 436-438: the test that ends the loop, at the end of the body
SpLimitTest == IF sp_post_index >= PostLimit THEN "done" ELSE "loop"

\* lines 397-440: the body of the loop for one post.  The progress report
\* of lines 404-406 may raise ("raises"); extract_post_data returns None
\* ("none") or the post's data; the data is appended to posts before
\* post.is_video is read, which gives False ("photo"), True ("video") or
\* raises ("is_video_raises").  The handler of line 440 goes on to the next
\* post without the test of line 436.
SpPost(outcome) ==
    /\ sp_pc = "post"
    /\ sp_post_count' = IF outcome \in {"raises", "none"} THEN sp_post_count
                                                          ELSE sp_post_count + 1
    /\ sp_reel_count' = IF outcome = "video" THEN sp_reel_count + 1 ELSE sp_reel_count
    /\ sp_pc' = IF outcome \in {"raises", "is_video_raises"} THEN "loop" ELSE SpLimitTest
    /\ UNCHANGED <<sp_taken, sp_post_index>>
    /\ SpFrame

PostOutcomes == {"raises", "none", "photo", "video", "is_video_raises"}

SpNext ==
    \/ SpNextPost
    \/ SpListingEnds
    \/ \E outcome \in PostOutcomes : SpPost(outcome)

-----------------------------------------------------------------------------
(* fetch_profile_posts.py: process_profiles(input_file, output_csv) *)

\* line 107: progress is saved every 10 profiles
SaveEvery == 10

\* the profiles profile_link.txt has at most
MaxProfiles == 10

\* lines 74-77: results = [], processed = 0, at the try
PpInit ==
    /\ prog = "process_profiles"
    /\ requests = <<>>
    /\ SingleIdle
    /\ BatchIdle("process_profiles")
    /\ pp_pc = "for"
    /\ pp_profiles \in 0..MaxProfiles
    /\ pp_post_url = None
    /\ pp_results = <<>>
    /\ pp_processed = 0
    /\ pp_sink = <<>>
    /\ pp_printed = <<>>
    /\ pp_interrupted = FALSE

PpFrame ==
    /\ prog = "process_profiles"
    /\ UNCHANGED <<prog, requests, pp_profiles>>
    /\ SingleFrame
    /\ BatchFrame("process_profiles")

\* the statements inside the try of lines 77-109
PpInTry == {"for", "fetch", "append", "count", "sleep", "progress", "progress_write"}

\* line 78: for profile_url in profiles
PpFor ==
    /\ pp_pc = "for"
    /\ pp_pc' = IF Len(pp_results) < pp_profiles THEN "fetch" ELSE "save"
    /\ UNCHANGED <<pp_post_url, pp_results, pp_processed, pp_sink, pp_printed,
                   pp_interrupted>>
    /\ PpFrame

\* lines 10-55, 83: post_url = fetch_instagram_post(username); the reply is
\* a page with a post link ("post"), a page without one or a status other
\* than 200 ("empty"), or an exception of requests.get ("raises")
PpFetch(reply) ==
    /\ pp_pc = "fetch"
    /\ pp_post_url' = IF reply = "post" THEN <<"p", "o", "s", "t">> ELSE None
    /\ pp_pc' = "append"
    /\ UNCHANGED <<pp_results, pp_processed, pp_sink, pp_printed, pp_interrupted>>
    /\ PpFrame

PageReplies == {"post", "empty", "raises"}

\* lines 85-98: the row of the profile is appended to results
PpAppend ==
    /\ pp_pc = "append"
    /\ pp_results' = Append(pp_results,
            [profile |-> Len(pp_results) + 1,
             post_url |-> IF Truthy(pp_post_url) THEN "found" ELSE "No posts found"])
    /\ pp_pc' = "count"
    /\ UNCHANGED <<pp_post_url, pp_processed, pp_sink, pp_printed, pp_interrupted>>
    /\ PpFrame

\* line 100: processed += 1
PpCount ==
    /\ pp_pc = "count"
    /\ pp_processed' = pp_processed + 1
    /\ pp_pc' = "sleep"
    /\ UNCHANGED <<pp_post_url, pp_results, pp_sink, pp_printed, pp_interrupted>>
    /\ PpFrame

\* lines 102-104: time.sleep(2) unless this was the last profile
PpSleep ==
    /\ pp_pc = "sleep"
    /\ pp_pc' = "progress"
    /\ UNCHANGED <<pp_post_url, pp_results, pp_processed, pp_sink, pp_printed,
                   pp_interrupted>>
    /\ PpFrame

\* lines 106-108, 121-125: every 10 profiles save_results opens output_csv
\* for writing, which empties it
PpProgress ==
    /\ pp_pc = "progress"
    /\ IF pp_processed % SaveEvery = 0
          THEN pp_sink' = <<>> /\ pp_pc' = "progress_write"
          ELSE pp_pc' = "for" /\ UNCHANGED pp_sink
    /\ UNCHANGED <<pp_post_url, pp_results, pp_processed, pp_printed, pp_interrupted>>
    /\ PpFrame

\* lines 126-128: ... and writes the rows of results
PpProgressWrite ==
    /\ pp_pc = "progress_write"
    /\ pp_sink' = pp_results
    /\ pp_pc' = "for"
    /\ UNCHANGED <<pp_post_url, pp_results, pp_processed, pp_printed, pp_interrupted>>
    /\ PpFrame

\* lines 115, 121-125: the final save_results, after the try, opens the file
PpSave ==
    /\ pp_pc = "save"
    /\ pp_sink' = <<>>
    /\ pp_pc' = "save_write"
    /\ UNCHANGED <<pp_post_url, pp_results, pp_processed, pp_printed, pp_interrupted>>
    /\ PpFrame

\* lines 126-128: ... and writes the rows of results
PpSaveWrite ==
    /\ pp_pc = "save_write"
    /\ pp_sink' = pp_results
    /\ pp_pc' = "report"
    /\ UNCHANGED <<pp_post_url, pp_results, pp_processed, pp_printed, pp_interrupted>>
    /\ PpFrame

\* lines 116-119: print(f"Processed {processed} profiles"), return results
PpReport ==
    /\ pp_pc = "report"
    /\ pp_printed' = Append(pp_printed, pp_processed)
    /\ pp_pc' = "done"
    /\ UNCHANGED <<pp_post_url, pp_results, pp_processed, pp_sink, pp_interrupted>>
    /\ PpFrame

\* lines 111-112: a KeyboardInterrupt raised inside the try is caught and
\* the run goes on to the final save
PpInterruptCaught ==
    /\ pp_pc \in PpInTry
    /\ pp_interrupted' = TRUE
    /\ pp_pc' = "save"
    /\ UNCHANGED <<pp_post_url, pp_results, pp_processed, pp_sink, pp_printed>>
    /\ PpFrame

\* lines 114-119: a KeyboardInterrupt raised after the try is not caught and
\* ends the process with a traceback
PpInterruptUncaught ==
    /\ pp_pc \in {"save", "save_write", "report"}
    /\ pp_interrupted' = TRUE
    /\ pp_pc' = "killed"
    /\ UNCHANGED <<pp_post_url, pp_results, pp_processed, pp_sink, pp_printed>>
    /\ PpFrame

PpNext ==
    \/ PpFor
    \/ \E reply \in PageReplies : PpFetch(reply)
    \/ PpAppend
    \/ PpCount
    \/ PpSleep
    \/ PpProgress
    \/ PpProgressWrite
    \/ PpSave
    \/ PpSaveWrite
    \/ PpReport
    \/ PpInterruptCaught
    \/ PpInterruptUncaught

-----------------------------------------------------------------------------
(* auto_fetch_posts.py: process_profiles_auto() *)

\* line 232: progress is saved every 10 profiles
AutoSaveEvery == 10

\* lines 192-196: results = [], at the for loop
PaInit ==
    /\ prog = "process_profiles_auto"
    /\ requests = <<>>
    /\ SingleIdle
    /\ BatchIdle("process_profiles_auto")
    /\ pa_pc = "for"
    /\ pa_profiles \in 0..MaxProfiles
    /\ pa_i = 0
    /\ pa_post_data = None
    /\ pa_results = <<>>
    /\ pa_sink = <<>>
    /\ pa_net = <<>>
    /\ pa_interrupted = FALSE

PaFrame ==
    /\ prog = "process_profiles_auto"
    /\ UNCHANGED <<prog, requests, pa_profiles>>
    /\ SingleFrame
    /\ BatchFrame("process_profiles_auto")

\* time.sleep and an HTTP GET, as they are recorded in pa_net
Recent(net, events) ==
    LET all == net \o events
    IN  IF Len(all) <= 2 THEN all ELSE SubSeq(all, Len(all) - 1, Len(all))

\* what a fetch function returns for a reply: the first post of a page that
\* has one, None for a page without posts, a status other than 200 or an
\* exception (lines 112-118, 164-169)
PostData(reply) == IF reply = "post" THEN <<"p", "o", "s", "t">> ELSE None

\* line 196: for i, profile in enumerate(profiles)
PaFor ==
    /\ pa_pc = "for"
    /\ IF Len(pa_results) < pa_profiles
          THEN pa_i' = Len(pa_results) /\ pa_pc' = "scrape"
          ELSE pa_pc' = "save" /\ UNCHANGED pa_i
    /\ UNCHANGED <<pa_post_data, pa_results, pa_sink, pa_net, pa_interrupted>>
    /\ PaFrame

\* lines 30-118, 204: post_data = fetcher.fetch_profile_posts(username),
\* which sleeps and then requests the profile page
PaScrape(reply) ==
    /\ pa_pc = "scrape"
    /\ pa_net' = Recent(pa_net, <<"sleep", "get">>)
    /\ pa_post_data' = PostData(reply)
    /\ pa_pc' = IF Truthy(PostData(reply)) THEN "append" ELSE "graphql"
    /\ UNCHANGED <<pa_i, pa_results, pa_sink, pa_interrupted>>
    /\ PaFrame

\* lines 131-169, 207-208: post_data = fetch_with_graphql_api(username),
\* which requests the web_profile_info endpoint
PaGraphql(reply) ==
    /\ pa_pc = "graphql"
    /\ pa_net' = Recent(pa_net, <<"get">>)
    /\ pa_post_data' = PostData(reply)
    /\ pa_pc' = "append"
    /\ UNCHANGED <<pa_i, pa_results, pa_sink, pa_interrupted>>
    /\ PaFrame

\* lines 210-229: the row of the profile is appended to results
PaAppend ==
    /\ pa_pc = "append"
    /\ pa_results' = Append(pa_results,
            [profile |-> pa_i + 1,
             status |-> IF Truthy(pa_post_data) THEN "found" ELSE "not_found"])
    /\ pa_pc' = "progress"
    /\ UNCHANGED <<pa_i, pa_post_data, pa_sink, pa_net, pa_interrupted>>
    /\ PaFrame

\* lines 231-233, 257: every 10 profiles save_results opens the file for
\* writing, which empties it
PaProgress ==
    /\ pa_pc = "progress"
    /\ IF (pa_i + 1) % AutoSaveEvery = 0
          THEN pa_sink' = <<>> /\ pa_pc' = "progress_write"
          ELSE pa_pc' = "delay" /\ UNCHANGED pa_sink
    /\ UNCHANGED <<pa_i, pa_post_data, pa_results, pa_net, pa_interrupted>>
    /\ PaFrame

\* lines 258-261: save_results writes the rows of results
PaWrite ==
    /\ pa_pc \in {"progress_write", "save_write"}
    /\ pa_sink' = pa_results
    /\ pa_pc' = IF pa_pc = "progress_write" THEN "delay" ELSE "done"
    /\ UNCHANGED <<pa_i, pa_post_data, pa_results, pa_net, pa_interrupted>>
    /\ PaFrame

\* lines 236-239: time.sleep(delay) unless this was the last profile
PaDelay ==
    /\ pa_pc = "delay"
    /\ pa_net' = IF pa_i < pa_profiles - 1 THEN Recent(pa_net, <<"sleep">>) ELSE pa_net
    /\ pa_pc' = "for"
    /\ UNCHANGED <<pa_i, pa_post_data, pa_results, pa_sink, pa_interrupted>>
    /\ PaFrame

\* lines 242, 257: the final save_results opens the file
PaSave ==
    /\ pa_pc = "save"
    /\ pa_sink' = <<>>
    /\ pa_pc' = "save_write"
    /\ UNCHANGED <<pa_i, pa_post_data, pa_results, pa_net, pa_interrupted>>
    /\ PaFrame

\* lines 171-251: no statement of process_profiles_auto handles
\* KeyboardInterrupt; raised anywhere, it ends the process with a traceback
PaInterrupt ==
    /\ pa_pc \notin {"done", "killed"}
    /\ pa_interrupted' = TRUE
    /\ pa_pc' = "killed"
    /\ UNCHANGED <<pa_i, pa_post_data, pa_results, pa_sink, pa_net>>
    /\ PaFrame

PaNext ==
    \/ PaFor
    \/ \E reply \in PageReplies : PaScrape(reply)
    \/ \E reply \in PageReplies : PaGraphql(reply)
    \/ PaAppend
    \/ PaProgress
    \/ PaWrite
    \/ PaDelay
    \/ PaSave
    \/ PaInterrupt

-----------------------------------------------------------------------------
(* fast_fetch_posts.py: process_all_profiles() and its worker threads *)

\* line 96
batch_size == 5

\* line 97
max_workers == 3

\* line 132: the results are saved when i + batch_size is a multiple of 20
FastSaveEvery == 20

\* the profiles profile_link.txt has at most, for the thread pool
MaxPoolProfiles == 8

\* the replies to the fetches of n profiles: the same for each, or each of
\* them in turn; "crash" stands for a task in which process_profile raises
ReplyPlans(n) ==
    {[t \in 1..n |-> reply] : reply \in PageReplies}
        \cup {[t \in 1..n |-> CASE t % 3 = 1 -> "post"
                                [] t % 3 = 2 -> "raises"
                                [] t % 3 = 0 -> "empty"]}
        \cup {[t \in 1..n |-> IF t % 2 = 1 THEN "crash" ELSE "post"]}

\* lines 91-100: results = [], the executor is created, at the for loop
PfInit ==
    /\ prog = "process_all_profiles"
    /\ requests = <<>>
    /\ SingleIdle
    /\ BatchIdle("process_all_profiles")
    /\ pf_pc = "for"
    /\ pf_profiles \in 0..MaxPoolProfiles
    /\ pf_replies \in ReplyPlans(pf_profiles)
    /\ pf_i = 0
    /\ pf_tasks = [t \in 1..pf_profiles |-> "new"]
    /\ pf_results = <<>>
    /\ pf_sink = <<>>
    /\ pf_interrupted = FALSE
    /\ pf_successful = 0
    /\ pf_failed = 0

PfFrame ==
    /\ prog = "process_all_profiles"
    /\ UNCHANGED <<prog, requests, pf_profiles, pf_replies>>
    /\ SingleFrame
    /\ BatchFrame("process_all_profiles")

\* line 101: batch = profiles[i:i+batch_size], as tasks
Batch == {t \in 1..pf_profiles : pf_i < t /\ t <= pf_i + batch_size}

TasksIn(states) == {t \in 1..pf_profiles : pf_tasks[t] \in states}

\* the statuses of fetch_instagram_post's result (lines 40-49)
Statuses == {"found", "not_found", "error"}

\* line 100: for i in range(0, len(profiles), batch_size)
PfFor ==
    /\ pf_pc = "for"
    /\ pf_pc' = IF pf_i < pf_profiles THEN "submit" ELSE "save"
    /\ UNCHANGED <<pf_i, pf_tasks, pf_results, pf_sink, pf_interrupted, pf_successful, pf_failed>>
    /\ PfFrame

\* line 105: executor.submit(process_profile, p) for the next p of the batch
PfSubmit ==
    /\ pf_pc = "submit"
    /\ LET t == Min(Batch \cap TasksIn({"new"}))
       IN  /\ pf_tasks' = [pf_tasks EXCEPT ![t] = "queued"]
           /\ pf_pc' = IF Batch \cap TasksIn({"new"}) = {t} THEN "collect" ELSE "submit"
    /\ UNCHANGED <<pf_i, pf_results, pf_sink, pf_interrupted, pf_successful, pf_failed>>
    /\ PfFrame

\* a pool that starts every task at once
WorkerAlwaysFree == TRUE

\* line 99: ThreadPoolExecutor(max_workers=max_workers) has a thread for
\* one more task
WorkerFree == Cardinality(TasksIn({"running"})) < max_workers

\* a thread of the pool takes the first task of the work queue and calls
\* process_profile on it (lines 51-59)
PfStart ==
    /\ TasksIn({"queued"}) # {}
    /\ WorkerFree
    /\ pf_tasks' = [pf_tasks EXCEPT ![Min(TasksIn({"queued"}))] = "running"]
    /\ UNCHANGED <<pf_pc, pf_i, pf_results, pf_sink, pf_interrupted, pf_successful, pf_failed>>
    /\ PfFrame

\* what fetch_instagram_post makes of a reply (lines 25-49)
FetchStatus(reply) ==
    CASE reply = "post" -> "found"
      [] reply = "empty" -> "not_found"
      [] reply = "raises" -> "error"

\* lines 59-69: a running task sleeps, fetches and returns its result
PfFinish(t) ==
    /\ pf_tasks[t] = "running"
    /\ pf_tasks' = [pf_tasks EXCEPT ![t] = IF pf_replies[t] = "crash" THEN "raised"
                                         ELSE FetchStatus(pf_replies[t])]
    /\ UNCHANGED <<pf_pc, pf_i, pf_results, pf_sink, pf_interrupted, pf_successful, pf_failed>>
    /\ PfFrame

\* a loop that ends at the first future
FirstCollected(tasks) == \E t \in Batch : tasks[t] = "collected"

\* line 107: as_completed(futures) has yielded every future of the batch
BatchCollected(tasks) == \A t \in Batch : tasks[t] = "collected"

\* a count that misses the tasks that raised
CountedNoRaise(counter, status) ==
    CASE status = "found" -> [successful |-> counter.successful + 1, failed |-> counter.failed]
      [] status = "raised" -> counter
      [] OTHER -> [successful |-> counter.successful, failed |-> counter.failed + 1]

\* lines 112-127: successful += 1 for a result that is found, failed += 1 for
\* any other result and for a task that raised
Counted(counter, status) ==
    IF status = "found"
    THEN [successful |-> counter.successful + 1, failed |-> counter.failed]
    ELSE [successful |-> counter.successful, failed |-> counter.failed + 1]

\* lines 107-127: as_completed yields a finished future of the batch; its
\* result is appended to results, or the row of an error when
\* future.result() raises what the task raised, and it is counted
PfCollect(t) ==
    /\ pf_pc = "collect"
    /\ t \in Batch
    /\ pf_tasks[t] \in Statuses \cup {"raised"}
    /\ pf_results' = Append(pf_results,
            [profile |-> t, status |-> IF pf_tasks[t] = "raised" THEN "error" ELSE pf_tasks[t]])
    /\ LET c == Counted([successful |-> pf_successful, failed |-> pf_failed], pf_tasks[t])
       IN  pf_successful' = c.successful /\ pf_failed' = c.failed
    /\ pf_tasks' = [pf_tasks EXCEPT ![t] = "collected"]
    /\ pf_pc' = IF BatchCollected(pf_tasks') THEN "progress" ELSE "collect"
    /\ UNCHANGED <<pf_i, pf_sink, pf_interrupted>>
    /\ PfFrame

\* lines 131-133, 156: save_results after some batches and after the last
\* one; it opens the file for writing, which empties it
PfProgress ==
    /\ pf_pc = "progress"
    /\ IF (pf_i + batch_size) % FastSaveEvery = 0 \/ pf_i + batch_size >= pf_profiles
          THEN pf_sink' = <<>> /\ pf_pc' = "progress_write"
          ELSE pf_pc' = "delay" /\ UNCHANGED pf_sink
    /\ UNCHANGED <<pf_i, pf_tasks, pf_results, pf_interrupted, pf_successful, pf_failed>>
    /\ PfFrame

\* lines 157-160: save_results writes the rows of results
PfWrite ==
    /\ pf_pc \in {"progress_write", "save_write"}
    /\ pf_sink' = pf_results
    /\ pf_pc' = IF pf_pc = "progress_write" THEN "delay" ELSE "done"
    /\ UNCHANGED <<pf_i, pf_tasks, pf_results, pf_interrupted, pf_successful, pf_failed>>
    /\ PfFrame

\* lines 136-138, 100: time.sleep(2) between batches, and the next i
PfDelay ==
    /\ pf_pc = "delay"
    /\ pf_i' = pf_i + batch_size
    /\ pf_pc' = "for"
    /\ UNCHANGED <<pf_tasks, pf_results, pf_sink, pf_interrupted, pf_successful, pf_failed>>
    /\ PfFrame

\* lines 141, 156: the final save_results opens the file
PfSave ==
    /\ pf_pc = "save"
    /\ pf_sink' = <<>>
    /\ pf_pc' = "save_write"
    /\ UNCHANGED <<pf_i, pf_tasks, pf_results, pf_interrupted, pf_successful, pf_failed>>
    /\ PfFrame

\* lines 99-141: nothing handles a KeyboardInterrupt raised in the main
\* thread; it leaves the with block, whose exit waits for the tasks that
\* were submitted
PfInterrupt ==
    /\ pf_pc \notin {"shutdown", "done", "killed"}
    /\ pf_interrupted' = TRUE
    /\ pf_pc' = "shutdown"
    /\ UNCHANGED <<pf_i, pf_tasks, pf_results, pf_sink, pf_successful, pf_failed>>
    /\ PfFrame

\* line 99: the with block is left and the exception ends the process
PfExit ==
    /\ pf_pc = "shutdown"
    /\ TasksIn({"queued", "running"}) = {}
    /\ pf_pc' = "killed"
    /\ UNCHANGED <<pf_i, pf_tasks, pf_results, pf_sink, pf_interrupted, pf_successful, pf_failed>>
    /\ PfFrame

PfNext ==
    \/ PfFor
    \/ PfSubmit
    \/ PfStart
    \/ \E t \in 1..pf_profiles : PfFinish(t)
    \/ \E t \in 1..pf_profiles : PfCollect(t)
    \/ PfProgress
    \/ PfWrite
    \/ PfDelay
    \/ PfSave
    \/ PfInterrupt
    \/ PfExit

-----------------------------------------------------------------------------
(* api_server.py: main() and process_request(request_data) *)

\* the request lines a run reads at most
MaxLines == 2

\* the n-th line of stdin: a blank line, a line that is no JSON, a JSON
\* array, or a JSON object.  An object has the id n or none (0), an action
\* or none (""), and params without the handler's keys ("empty"), with the
\* first of them ("partial") or with all of them ("complete").
RequestLines(n) ==
    {[json |-> j, id |-> 0, action |-> "", params |-> "empty"] :
        j \in {"blank", "invalid", "array"}}
    \cup [json : {"object"}, id : {0, n},
          action : {"", "nope", "test_environment", "instagram_oembed",
                    "instagram_scraper"},
          params : {"empty", "partial", "complete"}]

\* what extract_from_embed_url does for the server's oEmbed handler
EmbedReplies == {"data", "none", "raises"}

\* lines 80-135: what handle_instagram_oembed prints
OembedOutput(request_id, params, reply) ==
    IF params = "empty"
    THEN <<send_response(request_id, FALSE, PyNone, "Post URL is required")>>
    ELSE CASE reply = "data" ->
                <<send_response(request_id, TRUE, JsonDict([post_link |-> "postUrl"]), "")>>
           [] reply = "none" ->
                <<send_response(request_id, FALSE, PyNone, "Failed to fetch oEmbed data")>>
           [] reply = "raises" ->
                <<send_response(request_id, FALSE, PyNone, "oEmbed processing error")>>

\* instagram_scraper.py lines 483-531: main() prints its result, which has
\* no id, and then always calls sys.exit
ScraperMainOutput == <<[success |-> TRUE, profile |-> "profile"]>>

\* lines 138-186: handle_instagram_scraper ends the process with the
\* SystemExit of instagram_scraper's main, which no except Exception catches
ScraperExits(params, imported) == params = "complete" /\ imported

\* lines 138-186: what handle_instagram_scraper prints
handle_instagram_scraper(request_id, params, imported) ==
    CASE params = "empty" ->
            <<send_response(request_id, FALSE, PyNone, "Username is required")>>
      [] params = "partial" ->
            <<send_response(request_id, FALSE, PyNone, "Analysis ID is required")>>
      [] params = "complete" /\ imported -> ScraperMainOutput
      [] params = "complete" /\ ~imported ->
            <<send_response(request_id, FALSE, PyNone,
                            "Scraper error: name 'instagram_scraper_main' is not defined")>>

\* lines 189-217: what handle_test_environment prints
handle_test_environment(request_id) ==
    <<send_response(request_id, TRUE, JsonDict([python_version |-> "3"]), "")>>

\* lines 223-256, 273-282: what the loop body prints for a line
process_request(line, reply, imported) ==
    CASE line.json # "object" -> <<>>
      [] line.json = "object" /\ line.id = 0 -> <<>>
      [] line.json = "object" /\ line.id # 0 /\ line.action = "" ->
            <<send_response(line.id, FALSE, PyNone, "Action is required")>>
      [] line.json = "object" /\ line.id # 0 /\ line.action = "instagram_oembed" ->
            OembedOutput(line.id, line.params, reply)
      [] line.json = "object" /\ line.id # 0 /\ line.action = "instagram_scraper" ->
            handle_instagram_scraper(line.id, line.params, imported)
      [] line.json = "object" /\ line.id # 0 /\ line.action = "test_environment" ->
            handle_test_environment(line.id)
      [] line.json = "object" /\ line.id # 0 /\ line.action = "nope" ->
            <<send_response(line.id, FALSE, PyNone, "Unknown action: nope")>>

\* the request reaches handle_instagram_scraper
RoutedToScraper(line) ==
    line.json = "object" /\ line.id # 0 /\ line.action = "instagram_scraper"

\* lines 13-23, 261-267: the imports, and the start of main
ApiInit ==
    /\ prog = "api_server"
    /\ requests = <<>>
    /\ SingleIdle
    /\ BatchIdle("api_server")
    /\ api_pc = "loop"
    /\ api_imported \in BOOLEAN
    /\ api_read = <<>>
    /\ api_stdout = <<>>

ApiFrame ==
    /\ prog = "api_server"
    /\ UNCHANGED <<prog, requests, api_imported>>
    /\ SingleFrame
    /\ BatchFrame("api_server")

\* lines 267-282: the body of the loop for one line of stdin
ApiLine(line, reply) ==
    /\ api_pc = "loop"
    /\ Len(api_read) < MaxLines
    /\ line \in RequestLines(Len(api_read) + 1)
    /\ api_read' = Append(api_read, line)
    /\ api_stdout' = api_stdout \o process_request(line, reply, api_imported)
    /\ api_pc' = IF RoutedToScraper(line) /\ ScraperExits(line.params, api_imported)
                    THEN "exited"
                    ELSE "loop"
    /\ ApiFrame

\* line 267: stdin is at its end
ApiEndOfInput ==
    /\ api_pc = "loop"
    /\ api_pc' = "end_of_input"
    /\ UNCHANGED <<api_read, api_stdout>>
    /\ ApiFrame

\* lines 284-285: except KeyboardInterrupt
ApiInterrupt ==
    /\ api_pc = "loop"
    /\ api_pc' = "interrupted"
    /\ UNCHANGED <<api_read, api_stdout>>
    /\ ApiFrame

ApiNext ==
    \/ \E n \in 1..MaxLines, reply \in EmbedReplies :
          \E line \in RequestLines(n) : ApiLine(line, reply)
    \/ ApiEndOfInput
    \/ ApiInterrupt

-----------------------------------------------------------------------------
(* instagram_scraper.py: exponential_backoff_retry(func, max_retries, initial_delay) *)

\* the values of max_retries
MaxRetries == 3

\* the values of initial_delay: one second, and the default
InitialDelays == {1, 60}

\* the messages of the exceptions func raises
ErrorTexts ==
    {<<"4","0","1"," ","U","n","a","u","t","h","o","r","i","z","e","d">>,
     <<"P","l","e","a","s","e"," ","w","a","i","t"," ","a"," ","f","e","w"," ",
       "m","i","n","u","t","e","s">>,
     <<"R","a","t","e"," ","L","i","m","i","t"," ","e","x","c","e","e","d","e","d">>,
     <<"C","o","n","n","e","c","t","i","o","n"," ","r","e","s","e","t">>}

\* line 108: the codes of a rate limit or auth error
RateLimitCodes ==
    {<<"4","0","1">>, <<"4","0","3">>,
     <<"u","n","a","u","t","h","o","r","i","z","e","d">>,
     <<"f","o","r","b","i","d","d","e","n">>,
     <<"r","a","t","e"," ","l","i","m","i","t">>, <<"w","a","i","t">>}

\* lines 105-108: any(code in str(e).lower() for code in [...])
IsRateLimit(text) ==
    \E code \in RateLimitCodes : \E i \in 1..Len(text) : HasAt(lower(text), i, code)

\* a wait that does not grow
WaitTimeFlat(initial_delay, attempt) == initial_delay

\* line 110: wait_time = initial_delay * (2 ** attempt)
WaitTime(initial_delay, attempt) == initial_delay * 2^attempt

\* what the n-th invocation of func does: it returns a value or raises
FuncOutcomes(n) ==
    {[ok |-> TRUE, text |-> None, call |-> n]}
        \cup {[ok |-> FALSE, text |-> t, call |-> n] : t \in ErrorTexts}

\* lines 83-100: last_exception = None, at the for loop
RtInit ==
    /\ prog = "exponential_backoff_retry"
    /\ requests = <<>>
    /\ SingleIdle
    /\ BatchIdle("exponential_backoff_retry")
    /\ rt_pc = "loop"
    /\ rt_max_retries \in 0..MaxRetries
    /\ rt_initial_delay \in InitialDelays
    /\ rt_attempt = 0
    /\ rt_last_exception = NoException
    /\ rt_calls = <<>>
    /\ rt_slept = <<>>
    /\ rt_end = [how |-> "running", what |-> NoException]

RtFrame ==
    /\ prog = "exponential_backoff_retry"
    /\ UNCHANGED <<prog, requests, rt_max_retries, rt_initial_delay>>
    /\ SingleFrame
    /\ BatchFrame("exponential_backoff_retry")

\* lines 100-102: an attempt whose func() returns
RtReturn ==
    /\ rt_pc = "loop"
    /\ rt_attempt < rt_max_retries
    /\ \E r \in FuncOutcomes(Len(rt_calls) + 1) :
          /\ r.ok
          /\ rt_calls' = Append(rt_calls, r)
          /\ rt_end' = [how |-> "return", what |-> r]
    /\ rt_pc' = "returned"
    /\ UNCHANGED <<rt_attempt, rt_last_exception, rt_slept>>
    /\ RtFrame

\* lines 100-116: an attempt whose func() raises e
RtExcept(e) ==
    /\ rt_pc = "loop"
    /\ rt_attempt < rt_max_retries
    /\ e \in FuncOutcomes(Len(rt_calls) + 1)
    /\ ~e.ok
    /\ rt_calls' = Append(rt_calls, e)
    /\ rt_last_exception' = e
    /\ IF IsRateLimit(e.text) /\ rt_attempt < rt_max_retries - 1
          THEN /\ rt_slept' = Append(rt_slept, WaitTime(rt_initial_delay, rt_attempt))
               /\ rt_attempt' = rt_attempt + 1
               /\ UNCHANGED <<rt_pc, rt_end>>
          ELSE /\ rt_end' = [how |-> "raise", what |-> e]
               /\ rt_pc' = "raised"
               /\ UNCHANGED <<rt_attempt, rt_slept>>
    /\ RtFrame

\* the TypeError of "raise None"
RaiseNone == [ok |-> FALSE, text |-> <<"T","y","p","e","E","r","r","o","r">>, call |-> 0]

\* lines 100, 118-119: the loop ends without a return or a raise, which
\* range(max_retries) allows only when it is empty: raise last_exception
RtExhausted ==
    /\ rt_pc = "loop"
    /\ rt_attempt >= rt_max_retries
    /\ rt_end' = [how |-> "raise",
                  what |-> IF rt_last_exception = NoException THEN RaiseNone
                                                              ELSE rt_last_exception]
    /\ rt_pc' = "raised"
    /\ UNCHANGED <<rt_attempt, rt_last_exception, rt_calls, rt_slept>>
    /\ RtFrame

RtNext ==
    \/ RtReturn
    \/ \E n \in 1..MaxRetries : \E e \in FuncOutcomes(n) : RtExcept(e)
    \/ RtExhausted

-----------------------------------------------------------------------------
(* instagram_oembed.py: analyze_content *)

MaxAnalyzePieces == 3

\* the pieces the titles given to analyze_content are put together from
AnalyzePieces == {
    <<"#","f","u","n">>,
    <<"#","S","u","n","_","2">>,
    <<"@","b","o","b">>,
    <<"@","a","l",".","x">>,
    <<"H","i">>,
    <<"&","a","m","p",";">>,
    <<" ">>, <<"\n">>, <<"!">>, <<".">> }

AnalyzeTitles ==
    {Flatten(ps) : ps \in UNION {[1..n -> AnalyzePieces] : n \in 0..MaxAnalyzePieces}}

\* the character class [a-zA-Z0-9_]
TagChars == Upper \cup Lower \cup Digit \cup {"_"}

\* a mention class without the dot
MentionCharsNoDot == TagChars

\* the character class [a-zA-Z0-9_.] of the mentions
MentionChars == Upper \cup Lower \cup Digit \cup {"_", "."}

\* a findall that takes a token only at the start of the text or after whitespace
RECURSIVE FindallAfterSpace(_, _, _, _)
FindallAfterSpace(s, i, prefix, C) ==
    IF i >= Len(s) THEN <<>>
    ELSE IF s[i] = prefix /\ s[i + 1] \in C /\ (i = 1 \/ s[i - 1] \in WS)
         THEN LET e == RunEnd(s, i + 1, C)
              IN  <<SubSeq(s, i, e - 1)>> \o FindallAfterSpace(s, e, prefix, C)
         ELSE FindallAfterSpace(s, i + 1, prefix, C)

\* re.findall(prefix + '[C]+', s) from position i on: the matches do not overlap
RECURSIVE FindallPrefixed(_, _, _, _)
FindallPrefixed(s, i, prefix, C) ==
    IF i >= Len(s) THEN <<>>
    ELSE IF s[i] = prefix /\ s[i + 1] \in C
         THEN LET e == RunEnd(s, i + 1, C)
              IN  <<SubSeq(s, i, e - 1)>> \o FindallPrefixed(s, e, prefix, C)
         ELSE FindallPrefixed(s, i + 1, prefix, C)

\* s.count(c) for a one-character c
Count(s, c) == Cardinality({k \in 1..Len(s) : s[k] = c})

\* len(s.split()): the runs of characters that are no whitespace
WordCount(s) ==
    Cardinality({k \in 1..Len(s) : s[k] \notin WS /\ (k = 1 \/ s[k - 1] \in WS)})

\* [x[1:] for x in found]
StripPrefix(found) == [n \in 1..Len(found) |-> Tail(found[n])]

\* a line count that does not add one
LineCountNoPlusOne(clean_caption) == Count(clean_caption, "\n")

\* line 390: clean_caption.count('\n') + 1
LineCount(clean_caption) == Count(clean_caption, "\n") + 1

\* lines 363-392
analyze_content(reel_data) ==
    LET caption == IF "title" \in DOMAIN reel_data THEN reel_data.title ELSE <<>>
        clean_caption == html_unescape(caption)
        hashtags == FindallPrefixed(clean_caption, 1, "#", TagChars)
        mentions == FindallPrefixed(clean_caption, 1, "@", MentionChars)
        keys == {"character_count", "word_count", "line_count"}
                    \cup (IF hashtags # <<>> THEN {"hashtags", "hashtag_count"} ELSE {})
                    \cup (IF mentions # <<>> THEN {"mentions", "mention_count"} ELSE {})
    IN  IF ~Truthy(caption) THEN <<>>
        ELSE [k \in keys |->
                CASE k = "hashtags"        -> StripPrefix(hashtags)
                  [] k = "hashtag_count"   -> Len(hashtags)
                  [] k = "mentions"        -> StripPrefix(mentions)
                  [] k = "mention_count"   -> Len(mentions)
                  [] k = "character_count" -> Len(clean_caption)
                  [] k = "word_count"      -> WordCount(clean_caption)
                  [] k = "line_count"      -> LineCount(clean_caption)]

\* main, line 406: get_reel_creator has returned a record, whose title is a
\* text or None; or a caller passes a dict without a title
AnInit ==
    /\ prog = "analyze_content"
    /\ requests = <<>>
    /\ SingleIdle
    /\ BatchIdle("analyze_content")
    /\ an_pc = "call"
    /\ an_reel_data \in {[title |-> t] : t \in AnalyzeTitles \cup {None}} \cup {<<>>}
    /\ an_analysis = <<>>

AnFrame ==
    /\ prog = "analyze_content"
    /\ UNCHANGED <<prog, requests, an_reel_data>>
    /\ SingleFrame
    /\ BatchFrame("analyze_content")

\* analysis = analyze_content(reel_info)
AnCall ==
    /\ an_pc = "call"
    /\ an_analysis' = analyze_content(an_reel_data)
    /\ an_pc' = "done"
    /\ AnFrame

AnNext == AnCall

-----------------------------------------------------------------------------
(* The paths that discover one post of a profile, and the record of a post:   *)
(* auto_fetch_posts.py fetch_profile_posts and fetch_with_graphql_api,        *)
(* fast_fetch_posts.py fetch_instagram_post, collect_real_posts.py            *)
(* validate_instagram_url, instagram_scraper.py extract_post_data             *)

\* the longest edge list, link list and list of shortcodes of a page
MaxDiscovered == 2

\* the nodes of the timeline: a photo, a video, and a node without shortcode
PhotoNode == [shortcode |-> <<"A","b","-">>, is_video |-> FALSE]
VideoNode == [shortcode |-> <<"x","_","9">>, is_video |-> TRUE]
BareNode  == [shortcode |-> None, is_video |-> TRUE]

\* no node: what a record that was not made from structured data is made from
NoNode == [shortcode |-> None, is_video |-> FALSE]

SeqsOf(S) == UNION {[1..n -> S] : n \in 0..MaxDiscovered}

\* the href attributes of the <a> elements of a profile page
Hrefs == {
    <<"/","p","/","A","b","-","/">>,
    <<"/","r","e","e","l","/","x","_","9","/">>,
    <<"/","p","/","r","e","e","l","/">>,
    <<"/","a","l","i","c","e","/">> }

\* the answers of the web_profile_info endpoint
ProfileInfoReplies ==
    {[kind |-> k, edges |-> <<>>] : k \in {"raises", "not200"}}
        \cup {[kind |-> "json", edges |-> e] : e \in SeqsOf({PhotoNode, VideoNode, BareNode})}

\* the profile pages: the window._sharedData script and its edges, the links,
\* and the "shortcode":"..." texts outside that script with the is_video flag
\* that stands next to each
ProfilePages ==
    {[kind |-> k, shared |-> "absent", edges |-> <<>>, links |-> <<>>, text |-> <<>>] :
        k \in {"raises", "not200"}}
        \cup {[kind |-> "page", shared |-> s, edges |-> <<>>, links |-> l, text |-> t] :
                s \in {"absent", "badjson"}, l \in SeqsOf(Hrefs),
                t \in SeqsOf({PhotoNode, VideoNode})}
        \cup {[kind |-> "page", shared |-> "json", edges |-> e, links |-> l, text |-> <<>>] :
                e \in SeqsOf({PhotoNode, VideoNode, BareNode}), l \in SeqsOf(Hrefs)}

\* the URLs validate_instagram_url is given
CollectedUrls == {
    PostUrl, ReelUrl, TvUrl,
    InstagramHome \o <<"p","/","r","e","e","l","/">>,
    InstagramHome \o <<"a","l","i","c","e","/">> }

\* the posts extract_post_data is given: attrs is FALSE when the Post object
\* lacks an attribute the function reads
ScrapedPosts ==
    {[shortcode |-> n.shortcode, is_video |-> n.is_video, attrs |-> a,
      mediaid |-> IF n.is_video THEN <<"2","2">> ELSE <<"1","1">>] :
        n \in {PhotoNode, VideoNode}, a \in BOOLEAN}

\* s[:n]
Take(s, n) == SubSeq(s, 1, IF Len(s) < n THEN Len(s) ELSE n)

\* what a path returns: None, or a dict with its url and type, the status
\* where the path sets one, and the node it was made from
NoPost == [kind |-> "None", url |-> <<>>, type |-> "", status |-> "", from |-> NoNode]

PostDict(url, type, status, from) ==
    [kind |-> "dict", url |-> url, type |-> type, status |-> status, from |-> from]

\* auto_fetch_posts.py 72-78 and 159-163, fast_fetch_posts.py 41-46: the url
\* and the type of a node that has a shortcode
NodeDict(node, status) ==
    PostDict(InstagramHome \o (IF node.is_video THEN <<"r","e","e","l">> ELSE <<"p">>)
                 \o <<"/">> \o node.shortcode \o <<"/">>,
             IF node.is_video THEN "reel" ELSE "post", status, node)

\* auto_fetch_posts.py 131-169
fetch_with_graphql_api(reply) ==
    IF reply.kind = "json" /\ reply.edges # <<>> /\ Truthy(reply.edges[1].shortcode)
    THEN NodeDict(reply.edges[1], "")
    ELSE NoPost

\* fast_fetch_posts.py 10-50
fetch_instagram_post(reply) ==
    CASE reply.kind = "raises" -> PostDict(<<>>, "", "error", NoNode)
      [] reply.kind = "json" /\ reply.edges # <<>> /\ Truthy(reply.edges[1].shortcode)
            -> NodeDict(reply.edges[1], "found")
      [] OTHER -> PostDict(<<>>, "", "not_found", NoNode)

\* re.search(r'/<tag>/[A-Za-z0-9_-]+/', href) finds a match
HrefMatches(href, tag) ==
    \E i \in 1..Len(href) :
        LET j == i + Len(tag) + 2
        IN  /\ HasAt(href, i, <<"/">> \o tag \o <<"/">>)
            /\ j <= Len(href)
            /\ href[j] \in ShortcodeChars
            /\ RunEnd(href, j, ShortcodeChars) <= Len(href)
            /\ href[RunEnd(href, j, ShortcodeChars)] = "/"

\* auto_fetch_posts.py 47-80: Method 1, the edges of window._sharedData
SharedDataPosts(page) ==
    LET HasShortcode(node) == Truthy(node.shortcode)
        nodes == SelectSeq(Take(page.edges, 3), HasShortcode)
    IN  IF page.shared = "json"
        THEN [n \in 1..Len(nodes) |-> NodeDict(nodes[n], "")]
        ELSE <<>>

\* auto_fetch_posts.py 82-98: Method 2, the links of the page
LinkPosts(page) ==
    LET IsPost(href) == HrefMatches(href, <<"p">>)
        IsReel(href) == HrefMatches(href, <<"r","e","e","l">>)
        post_links == Take(SelectSeq(page.links, IsPost), 2)
        reel_links == Take(SelectSeq(page.links, IsReel), 2)
        https == <<"h","t","t","p","s",":","/","/","w","w","w",".">>
                     \o <<"i","n","s","t","a","g","r","a","m",".","c","o","m">>
    IN  [n \in 1..Len(post_links) |-> PostDict(https \o post_links[n], "post", "", NoNode)]
        \o [n \in 1..Len(reel_links) |-> PostDict(https \o reel_links[n], "reel", "", NoNode)]

\* auto_fetch_posts.py 100-110: Method 3, the shortcodes in the text
ShortcodePosts(page) ==
    LET shortcodes == Take(page.text, 3)
    IN  [n \in 1..Len(shortcodes) |->
            PostDict(InstagramHome \o <<"p","/">> \o shortcodes[n].shortcode \o <<"/">>,
                     "post", "", shortcodes[n])]

\* auto_fetch_posts.py 30-118
fetch_profile_posts(page) ==
    IF page.kind # "page" THEN NoPost
    ELSE LET m1 == SharedDataPosts(page)
             m2 == IF m1 = <<>> THEN LinkPosts(page) ELSE m1
             posts == IF m2 = <<>> THEN ShortcodePosts(page) ELSE m2
         IN  IF posts # <<>> THEN posts[1] ELSE NoPost

\* collect_real_posts.py 91: post_type, is_valid = validate_instagram_url(post_url)
ValidatedUrl(url) ==
    LET v == validate_instagram_url(url)
    IN  IF v.is_valid THEN PostDict(url, v.post_type, "", NoNode) ELSE NoPost

\* instagram_scraper.py 265-294: the post data, with the fields a reel entry
\* repeats; a video has its video fields and the /reel/ URL
ExtractedFields(post) ==
    LET base == [id        |-> post.mediaid,
                 shortcode |-> post.shortcode,
                 url       |-> <<"h","t","t","p","s",":","/","/">> \o InstagramCom
                                   \o <<"p","/">> \o post.shortcode \o <<"/">>,
                 caption   |-> <<"h","i">>,
                 likes     |-> 5,
                 is_video  |-> post.is_video]
    IN  IF post.is_video
        THEN [video_duration |-> 9,
              video_views    |-> 70,
              url            |-> <<"h","t","t","p","s",":","/","/">> \o InstagramCom
                                     \o <<"r","e","e","l","/">> \o post.shortcode \o <<"/">>]
                 @@ base
        ELSE base

\* instagram_scraper.py 253-315: the url and the is_video of the post data, or
\* None after the exception the function catches
extract_post_data(post) ==
    IF ~post.attrs THEN NoPost
    ELSE PostDict(ExtractedFields(post).url, "", "",
                  [shortcode |-> post.shortcode, is_video |-> post.is_video])

DpInputs ==
    ({"fetch_with_graphql_api", "fetch_instagram_post"} \X ProfileInfoReplies)
        \cup ({"fetch_profile_posts"} \X ProfilePages)
        \cup ({"validate_instagram_url"} \X CollectedUrls)
        \cup ({"extract_post_data"} \X ScrapedPosts)

DpInit ==
    /\ prog = "discover_post"
    /\ requests = <<>>
    /\ SingleIdle
    /\ BatchIdle("discover_post")
    /\ dp_pc = "call"
    /\ \E c \in DpInputs : dp_path = c[1] /\ dp_input = c[2]
    /\ dp_record = NoPost

DpFrame ==
    /\ prog = "discover_post"
    /\ UNCHANGED <<prog, requests, dp_path, dp_input>>
    /\ SingleFrame
    /\ BatchFrame("discover_post")

DpReturn(record) ==
    /\ dp_pc = "call"
    /\ dp_record' = record
    /\ dp_pc' = "done"
    /\ DpFrame

DpGraphql == dp_path = "fetch_with_graphql_api" /\ DpReturn(fetch_with_graphql_api(dp_input))

DpFast == dp_path = "fetch_instagram_post" /\ DpReturn(fetch_instagram_post(dp_input))

DpScrape == dp_path = "fetch_profile_posts" /\ DpReturn(fetch_profile_posts(dp_input))

DpValidate == dp_path = "validate_instagram_url" /\ DpReturn(ValidatedUrl(dp_input))

DpExtract == dp_path = "extract_post_data" /\ DpReturn(extract_post_data(dp_input))

DpNext == DpGraphql \/ DpFast \/ DpScrape \/ DpValidate \/ DpExtract

-----------------------------------------------------------------------------
(* instagram_scraper.py: the result of scrape_instagram_profile *)

\* the posts a listing has at most when the lists are followed
MaxScraped == 3

\* a reel entry that keeps the /p/ URL of the post
ReelDataPostUrl(post_data) ==
    [reel_id        |-> post_data.id,
     reel_shortcode |-> post_data.shortcode,
     reel_url       |-> <<"h","t","t","p","s",":","/","/">> \o InstagramCom
                            \o <<"p","/">> \o post_data.shortcode \o <<"/">>,
     reel_caption   |-> post_data.caption,
     reel_likes     |-> post_data.likes,
     reel_views     |-> post_data.video_views,
     reel_duration  |-> post_data.video_duration,
     reel_is_video  |-> TRUE] @@ post_data

\* lines 415-430: reel_data = post_data.copy(), updated with the reel_ fields
ReelData(post_data) ==
    [reel_id        |-> post_data.id,
     reel_shortcode |-> post_data.shortcode,
     reel_url       |-> post_data.url,
     reel_caption   |-> post_data.caption,
     reel_likes     |-> post_data.likes,
     reel_views     |-> IF "video_views" \in DOMAIN post_data THEN post_data.video_views ELSE 0,
     reel_duration  |-> IF "video_duration" \in DOMAIN post_data
                        THEN post_data.video_duration ELSE 0,
     reel_is_video  |-> TRUE] @@ post_data

\* the result dict: lines 372-381, 451-460 and 470-478
ScrapeResult(success, reels, posts, reel_count, post_count) ==
    [success |-> success, reels |-> reels, all_posts |-> posts,
     total_reels |-> reel_count, total_posts |-> post_count]

\* no result yet
Scraping == ScrapeResult(FALSE, <<>>, <<>>, -1, -1)

\* no post: before the loop has taken one
NoScraped == [shortcode |-> None, is_video |-> FALSE, attrs |-> FALSE, mediaid |-> <<>>]

\* line 343: at Profile.from_username
SrInit ==
    /\ prog = "scrape_result"
    /\ requests = <<>>
    /\ SingleIdle
    /\ BatchIdle("scrape_result")
    /\ sr_pc = "profile"
    /\ sr_taken = 0
    /\ sr_post = NoScraped
    /\ sr_posts = <<>>
    /\ sr_reels = <<>>
    /\ sr_post_count = 0
    /\ sr_reel_count = 0
    /\ sr_result = Scraping

SrFrame ==
    /\ prog = "scrape_result"
    /\ UNCHANGED <<prog, requests>>
    /\ SingleFrame
    /\ BatchFrame("scrape_result")

\* lines 341-390: the profile cannot be read ("raises": the handler of line 468
\* returns the failure result), is private and the session is not
\* authenticated ("private"), or its posts are listed ("open")
SrProfile(outcome) ==
    /\ sr_pc = "profile"
    /\ CASE outcome = "raises" ->
                sr_pc' = "done" /\ sr_result' = ScrapeResult(FALSE, <<>>, <<>>, 0, 0)
         [] outcome = "private" ->
                sr_pc' = "done" /\ sr_result' = ScrapeResult(TRUE, <<>>, <<>>, 0, 0)
         [] outcome = "open" ->
                sr_pc' = "loop" /\ UNCHANGED sr_result
    /\ UNCHANGED <<sr_taken, sr_post, sr_posts, sr_reels, sr_post_count, sr_reel_count>>
    /\ SrFrame

\* line 396: enumerate(profile.get_posts()) yields the next post
SrNextPost(post) ==
    /\ sr_pc = "loop"
    /\ sr_taken < MaxScraped
    /\ sr_post' = post
    /\ sr_taken' = sr_taken + 1
    /\ sr_pc' = "post"
    /\ UNCHANGED <<sr_posts, sr_reels, sr_post_count, sr_reel_count, sr_result>>
    /\ SrFrame

\* lines 404-406, 440-442: the progress report raises, the handler goes on
SrPostRaises ==
    /\ sr_pc = "post"
    /\ sr_pc' = "loop"
    /\ UNCHANGED <<sr_taken, sr_post, sr_posts, sr_reels, sr_post_count, sr_reel_count,
                   sr_result>>
    /\ SrFrame

\* lines 409-438: the post data is appended and counted, a video also as a
\* reel; post.is_video is the flag extract_post_data has read
SrPost ==
    /\ sr_pc = "post"
    /\ IF extract_post_data(sr_post).kind = "None"
       THEN UNCHANGED <<sr_posts, sr_reels, sr_post_count, sr_reel_count>>
       ELSE LET post_data == ExtractedFields(sr_post)
            IN  /\ sr_posts' = Append(sr_posts, post_data)
                /\ sr_post_count' = sr_post_count + 1
                /\ IF sr_post.is_video
                   THEN /\ sr_reels' = Append(sr_reels, ReelData(post_data))
                        /\ sr_reel_count' = sr_reel_count + 1
                   ELSE UNCHANGED <<sr_reels, sr_reel_count>>
    /\ sr_pc' = IF sr_taken - 1 >= PostLimit THEN "result" ELSE "loop"
    /\ UNCHANGED <<sr_taken, sr_post, sr_result>>
    /\ SrFrame

\* lines 396, 444-460: the listing is exhausted, or fetching its next page
\* raises and the handler of line 444 ends the loop; the result is returned
SrReturn ==
    /\ sr_pc \in {"loop", "result"}
    /\ sr_result' = ScrapeResult(TRUE, sr_reels, sr_posts, sr_reel_count, sr_post_count)
    /\ sr_pc' = "done"
    /\ UNCHANGED <<sr_taken, sr_post, sr_posts, sr_reels, sr_post_count, sr_reel_count>>
    /\ SrFrame

SrNext ==
    \/ \E outcome \in {"raises", "private", "open"} : SrProfile(outcome)
    \/ \E post \in ScrapedPosts : SrNextPost(post)
    \/ SrPostRaises
    \/ SrPost
    \/ SrReturn

-----------------------------------------------------------------------------
(* The rows of the CSV files that have a status column: process_profiles_auto *)
(* (profile_posts_auto.csv), process_all_profiles (profile_posts_real.csv),   *)
(* create_full_template (profile_posts_collection.csv) and                    *)
(* validate_collected_urls (profile_posts_validated.csv)                      *)

\* the rows a file has at most
MaxSinkRows == 2

CsvRow(post_url, post_type, status) ==
    [post_url |-> post_url, post_type |-> post_type, status |-> status]

\* a row that is 'found' whatever was fetched
AutoRowAlwaysFound(post_data) == CsvRow(post_data.url, post_data.type, "found")

\* auto_fetch_posts.py 210-229: the row of a profile, "if post_data"
AutoRow(post_data) ==
    IF post_data.kind = "dict"
    THEN CsvRow(post_data.url, post_data.type, "found")
    ELSE CsvRow(<<>>, "", "not_found")

\* fast_fetch_posts.py 63-69: the row process_profile returns
process_profile(result) == CsvRow(result.url, result.type, result.status)

\* fast_fetch_posts.py 121-127: the row of a task that raised
ErrorRow == CsvRow(<<>>, "", "error")

\* collect_real_posts.py 45-52: the row of a profile line
TemplateRow == CsvRow(<<>>, "", "pending")

\* collect_real_posts.py 43-44: url = line.strip(), "if url and url.startswith('http')"
IsProfileLine(line) == Truthy(strip(line)) /\ HasAt(strip(line), 1, <<"h","t","t","p">>)

\* the lines of profile_link.txt after its header
ProfileLines == {
    InstagramHome \o <<"a","l","i","c","e","/","\n">>,
    <<"a","l","i","c","e","\n">>,
    <<"\n">> }

\* collect_real_posts.py 81-114: the row of a post_url column that is a text
ValidatedRow(url, reply) ==
    LET post_url == strip(url)
        v == validate_instagram_url(post_url)
    IN  IF ~Truthy(post_url) THEN CsvRow(url, "", "pending")
        ELSE IF v.is_valid
             THEN CsvRow(url, v.post_type,
                         IF check_url_exists(reply) THEN "valid" ELSE "not_found")
             ELSE CsvRow(url, "", "invalid_format")

StatusWriters == {"process_profiles_auto", "process_all_profiles",
                  "create_full_template", "validate_collected_urls"}

RwInit ==
    /\ prog = "write_rows"
    /\ requests = <<>>
    /\ SingleIdle
    /\ BatchIdle("write_rows")
    /\ rw_pc = "rows"
    /\ rw_writer \in StatusWriters
    /\ rw_rows = <<>>
    /\ rw_sink = <<>>

RwFrame ==
    /\ prog = "write_rows"
    /\ UNCHANGED <<prog, requests, rw_writer>>
    /\ SingleFrame
    /\ BatchFrame("write_rows")

RwAppend(row) ==
    /\ rw_pc = "rows"
    /\ Len(rw_rows) < MaxSinkRows
    /\ rw_rows' = Append(rw_rows, row)
    /\ UNCHANGED <<rw_pc, rw_sink>>
    /\ RwFrame

\* auto_fetch_posts.py 204-208: what the two methods leave in post_data: the
\* page is scraped, and the endpoint is asked when that gave nothing
AutoPostData ==
    {fetch_profile_posts(page) : page \in ProfilePages}
        \cup {fetch_with_graphql_api(reply) : reply \in ProfileInfoReplies}

\* auto_fetch_posts.py 204-229: the row of post_data is appended
RwAuto ==
    /\ rw_writer = "process_profiles_auto"
    /\ \E post_data \in AutoPostData : RwAppend(AutoRow(post_data))

\* fast_fetch_posts.py 107-118: the result of a task is appended
RwPool ==
    /\ rw_writer = "process_all_profiles"
    /\ \E reply \in ProfileInfoReplies : RwAppend(process_profile(fetch_instagram_post(reply)))

\* fast_fetch_posts.py 119-127: the task raised
RwPoolError == rw_writer = "process_all_profiles" /\ RwAppend(ErrorRow)

\* collect_real_posts.py 42-52: a profile line gets a row
RwTemplate ==
    /\ rw_writer = "create_full_template"
    /\ \E line \in ProfileLines : IsProfileLine(line) /\ RwAppend(TemplateRow)

\* collect_real_posts.py 81-116: a row is validated
RwValidate ==
    /\ rw_writer = "validate_collected_urls"
    /\ \E url \in RowUrls \ {None}, reply \in ExistsReplies : RwAppend(ValidatedRow(url, reply))

\* save_results, and the writerows of collect_real_posts.py 54-58 and 118-123
RwSave ==
    /\ rw_pc = "rows"
    /\ rw_sink' = rw_rows
    /\ rw_pc' = "done"
    /\ UNCHANGED rw_rows
    /\ RwFrame

RwNext == RwAuto \/ RwPool \/ RwPoolError \/ RwTemplate \/ RwValidate \/ RwSave

-----------------------------------------------------------------------------
(* api_server.py: handle_instagram_scraper and sys.argv *)

\* the scraper requests a server takes at most
MaxRequests == 2

\* sys.argv of the server process
ServerArgv == <<"api_server.py">>

\* the params of a scraper request; "" stands for a missing entry
ScraperParams ==
    [username : {"", "u", "v"}, analysisId : {"", "a", "b"}, extensionCookies : {"", "{}"}]

NoParams == [username |-> "", analysisId |-> "", extensionCookies |-> ""]

\* lines 155-163: ['instagram_scraper.py'] + args
ScraperArgv(params) ==
    <<"instagram_scraper.py", "--username", params.username,
      "--analysis-id", params.analysisId>>
        \o (IF params.extensionCookies # ""
            THEN <<"--extension-cookies", params.extensionCookies>> ELSE <<>>)

\* what ends a call of instagram_scraper_main: it returns a dict or something
\* else, raises an exception, ends the process with sys.exit, or is not
\* defined because its import failed
ScraperOutcomes == {"result", "invalid", "raises", "exits", "undefined"}

\* a handler that restores sys.argv after the try, without a finally clause
ArgvOnLeaveNoFinally(outcome, original_argv, argv) ==
    IF outcome \in {"result", "invalid"} THEN original_argv ELSE argv

\* lines 165-179: the finally clause runs whatever ended the try
ArgvOnLeave(outcome, original_argv, argv) == original_argv

\* the server is started
HsInit ==
    /\ prog = "scraper_request"
    /\ requests = <<>>
    /\ SingleIdle
    /\ BatchIdle("scraper_request")
    /\ hs_pc = "request"
    /\ hs_argv = ServerArgv
    /\ hs_original_argv = <<>>
    /\ hs_params = NoParams
    /\ hs_handled = 0
    /\ hs_seen = <<>>

HsFrame ==
    /\ prog = "scraper_request"
    /\ UNCHANGED <<prog, requests>>
    /\ SingleFrame
    /\ BatchFrame("scraper_request")

\* lines 245-246: a request with the action instagram_scraper is routed to
\* the handler
HsArrive(params) ==
    /\ hs_pc = "request"
    /\ hs_handled < MaxRequests
    /\ hs_params' = params
    /\ hs_handled' = hs_handled + 1
    /\ hs_pc' = "handler"
    /\ UNCHANGED <<hs_argv, hs_original_argv, hs_seen>>
    /\ HsFrame

\* lines 140-150: a request without username or analysisId is answered with
\* an error and the handler returns
HsRefuse ==
    /\ hs_pc = "handler"
    /\ hs_params.username = "" \/ hs_params.analysisId = ""
    /\ hs_pc' = "request"
    /\ UNCHANGED <<hs_argv, hs_original_argv, hs_params, hs_handled, hs_seen>>
    /\ HsFrame

\* lines 155-163: original_argv = sys.argv, and sys.argv is replaced
HsReplace ==
    /\ hs_pc = "handler"
    /\ hs_params.username # "" /\ hs_params.analysisId # ""
    /\ hs_original_argv' = hs_argv
    /\ hs_argv' = ScraperArgv(hs_params)
    /\ hs_pc' = "scraper"
    /\ UNCHANGED <<hs_params, hs_handled, hs_seen>>
    /\ HsFrame

\* lines 165-179: instagram_scraper_main() runs, parse_args reads sys.argv,
\* and the try is left; after sys.exit the process ends
HsScraper(outcome) ==
    /\ hs_pc = "scraper"
    /\ hs_seen' = IF outcome = "undefined" THEN hs_seen
                  ELSE Append(hs_seen, [params |-> hs_params, argv |-> hs_argv])
    /\ hs_argv' = ArgvOnLeave(outcome, hs_original_argv, hs_argv)
    /\ hs_pc' = IF outcome = "exits" THEN "exited" ELSE "request"
    /\ UNCHANGED <<hs_original_argv, hs_params, hs_handled>>
    /\ HsFrame

HsNext ==
    \/ \E params \in ScraperParams : HsArrive(params)
    \/ HsRefuse
    \/ HsReplace
    \/ \E outcome \in ScraperOutcomes : HsScraper(outcome)

-----------------------------------------------------------------------------
(* auto_fetch_posts.py --sample and fast_fetch_posts.py --test *)

\* the lines profile_link.txt has at most
MaxFileLines == 12

\* lines[:6] of --sample and lines[:11] of --test: the header and 5 or 10 profiles
SampleLines == 6
TestLines == 11

\* a file that does not exist; a file that does is the sequence of its lines,
\* and line k of profile_link.txt is written k
Missing == <<0>>

FileLines(n) == [k \in 1..n |-> k]

LimitedFiles ==
    {"profile_link.txt", "profile_link_temp.txt", "profile_link_backup.txt", "profile_link_full.txt"}

\* shutil.copy(src, dst) and shutil.move(src, dst)
Copy(files, src, dst) == [files EXCEPT ![dst] = files[src]]

Move(files, src, dst) == [files EXCEPT ![dst] = files[src], ![src] = Missing]

\* how process_profiles_auto() or process_all_profiles() ends: it returns, an
\* exception leaves it (save_results cannot write the CSV, a print cannot be
\* encoded), or Ctrl-C interrupts one of its sleeps or requests
BatchOutcomes == {"completed", "error", "interrupt"}

\* the script is started in a directory that holds profile_link.txt
LrInit ==
    /\ prog = "limited_run"
    /\ requests = <<>>
    /\ SingleIdle
    /\ BatchIdle("limited_run")
    /\ lr_mode \in {"sample", "test"}
    /\ lr_pc = IF lr_mode = "sample" THEN "copy" ELSE "read"
    /\ \E n \in 0..MaxFileLines :
          /\ lr_original = FileLines(n)
          /\ lr_files = [f \in LimitedFiles |->
                            IF f = "profile_link.txt" THEN FileLines(n) ELSE Missing]
    /\ lr_lines = <<>>
    /\ lr_read = Missing
    /\ lr_end = ""

LrFrame ==
    /\ prog = "limited_run"
    /\ UNCHANGED <<prog, requests>>
    /\ SingleFrame
    /\ BatchFrame("limited_run")

\* auto_fetch_posts.py line 311: shutil.copy('profile_link.txt', 'profile_link_backup.txt')
LrCopy ==
    /\ lr_pc = "copy"
    /\ lr_files' = Copy(lr_files, "profile_link.txt", "profile_link_backup.txt")
    /\ lr_pc' = "read"
    /\ UNCHANGED <<lr_mode, lr_lines, lr_original, lr_read, lr_end>>
    /\ LrFrame

\* auto_fetch_posts.py lines 313-314, fast_fetch_posts.py lines 171-172:
\* lines = f.readlines()
LrRead ==
    /\ lr_pc = "read"
    /\ lr_lines' = lr_files["profile_link.txt"]
    /\ lr_pc' = "write"
    /\ UNCHANGED <<lr_mode, lr_files, lr_original, lr_read, lr_end>>
    /\ LrFrame

\* auto_fetch_posts.py lines 316-317, fast_fetch_posts.py lines 174-175: the
\* first lines are written to profile_link_temp.txt
LrWriteTemp ==
    /\ lr_pc = "write"
    /\ lr_files' = [lr_files EXCEPT !["profile_link_temp.txt"] =
                       Take(lr_lines, IF lr_mode = "sample" THEN SampleLines ELSE TestLines)]
    /\ lr_pc' = IF lr_mode = "sample" THEN "install" ELSE "aside"
    /\ UNCHANGED <<lr_mode, lr_lines, lr_original, lr_read, lr_end>>
    /\ LrFrame

\* fast_fetch_posts.py line 178: shutil.move('profile_link.txt', 'profile_link_full.txt')
LrSetAside ==
    /\ lr_pc = "aside"
    /\ lr_files' = Move(lr_files, "profile_link.txt", "profile_link_full.txt")
    /\ lr_pc' = "install"
    /\ UNCHANGED <<lr_mode, lr_lines, lr_original, lr_read, lr_end>>
    /\ LrFrame

\* auto_fetch_posts.py line 319, fast_fetch_posts.py line 179:
\* shutil.move('profile_link_temp.txt', 'profile_link.txt')
LrInstall ==
    /\ lr_pc = "install"
    /\ lr_files' = Move(lr_files, "profile_link_temp.txt", "profile_link.txt")
    /\ lr_pc' = "batch"
    /\ UNCHANGED <<lr_mode, lr_lines, lr_original, lr_read, lr_end>>
    /\ LrFrame

\* auto_fetch_posts.py line 320: process_profiles_auto() reads profile_link.txt;
\* what leaves it other than a return ends the script.
\* fast_fetch_posts.py lines 181-185: process_all_profiles() reads
\* profile_link.txt, and the finally clause moves profile_link_full.txt back
\* whatever ended it
LrBatch(outcome) ==
    /\ lr_pc = "batch"
    /\ lr_read' = lr_files["profile_link.txt"]
    /\ lr_end' = outcome
    /\ IF lr_mode = "test"
       THEN /\ lr_files' = Move(lr_files, "profile_link_full.txt", "profile_link.txt")
            /\ lr_pc' = "ended"
       ELSE /\ lr_files' = lr_files
            /\ lr_pc' = IF outcome = "completed" THEN "restore" ELSE "ended"
    /\ UNCHANGED <<lr_mode, lr_lines, lr_original>>
    /\ LrFrame

\* auto_fetch_posts.py line 321: shutil.move('profile_link_backup.txt', 'profile_link.txt')
LrRestore ==
    /\ lr_pc = "restore"
    /\ lr_files' = Move(lr_files, "profile_link_backup.txt", "profile_link.txt")
    /\ lr_pc' = "ended"
    /\ UNCHANGED <<lr_mode, lr_lines, lr_original, lr_read, lr_end>>
    /\ LrFrame

LrNext ==
    \/ LrCopy
    \/ LrRead
    \/ LrWriteTemp
    \/ LrSetAside
    \/ LrInstall
    \/ \E outcome \in BatchOutcomes : LrBatch(outcome)
    \/ LrRestore

-----------------------------------------------------------------------------

Init ==
    \/ ScInit \/ CrInit \/ OeInit \/ VaInit
    \/ SpInit \/ PpInit \/ PaInit \/ PfInit \/ ApiInit \/ RtInit
    \/ AnInit
    \/ DpInit
    \/ SrInit
    \/ RwInit
    \/ HsInit
    \/ LrInit

Next ==
    \/ ScExtract \/ CrNext \/ OeNext \/ VaNext
    \/ SpNext \/ PpNext \/ PaNext \/ PfNext \/ ApiNext \/ RtNext
    \/ AnNext
    \/ DpNext
    \/ SrNext
    \/ RwNext
    \/ HsNext
    \/ LrNext

Spec == Init /\ [][Next]_vars

\* each program on its own
SpecShortcode == ScInit /\ [][ScExtract]_vars

SpecCreator == CrInit /\ [][CrNext]_vars

SpecOembed == OeInit /\ [][OeNext]_vars

SpecValidate == VaInit /\ [][VaNext]_vars

SpecScrape == SpInit /\ [][SpNext]_vars

SpecProfiles == PpInit /\ [][PpNext]_vars

SpecAuto == PaInit /\ [][PaNext]_vars

SpecPool == PfInit /\ [][PfNext]_vars

SpecServer == ApiInit /\ [][ApiNext]_vars

SpecRetry == RtInit /\ [][RtNext]_vars

SpecAnalyze == AnInit /\ [][AnNext]_vars

SpecDiscover == DpInit /\ [][DpNext]_vars

SpecReels == SrInit /\ [][SrNext]_vars

SpecRows == RwInit /\ [][RwNext]_vars

SpecArgv == HsInit /\ [][HsNext]_vars

SpecLimited == LrInit /\ [][LrNext]_vars

-----------------------------------------------------------------------------
(* C2: extract_shortcode_from_url on <prefix>/p/<code>/ and <prefix>/reel/<code>/ *)

\* url = <prefix> tag <code> "/" where tag starts at i, <code> in [A-Za-z0-9_-]+
IsTaggedCodeUrl(url, i, tag) ==
    /\ HasAt(url, i, tag)
    /\ i + Len(tag) < Len(url)
    /\ url[Len(url)] = "/"
    /\ \A k \in (i + Len(tag))..(Len(url) - 1) : url[k] \in ShortcodeChars

TaggedCode(url, i, tag) == SubSeq(url, i + Len(tag), Len(url) - 1)

PostTag == <<"/","p","/">>
ReelTag == <<"/","r","e","e","l","/">>

ContainsAt(url, lit) == \E i \in 1..Len(url) : HasAt(url, i, lit)

\* an occurrence of /p/ or /reel/ at i that a shortcode character follows
TagWithCodeAt(url, i) ==
    \E tag \in {PostTag, ReelTag} :
        /\ HasAt(url, i, tag)
        /\ i + Len(tag) <= Len(url)
        /\ url[i + Len(tag)] \in ShortcodeChars

\* C2 as claimed: for EVERY prefix the result is <code>, and the result is None
\* for every URL that contains neither /p/ nor /reel/.
C2_AnyPrefix ==
    sc_pc = "done" =>
        /\ \A i \in 1..Len(sc_url) : \A tag \in {PostTag, ReelTag} :
               IsTaggedCodeUrl(sc_url, i, tag) => sc_result = TaggedCode(sc_url, i, tag)
        /\ (~ContainsAt(sc_url, PostTag) /\ ~ContainsAt(sc_url, ReelTag))
               => sc_result = None

\* C2 (amended): the result is <code> when the /p/ or /reel/ before <code> is the
\* first occurrence of /p/ or /reel/ in the URL that a shortcode character
\* follows; the result is None for every URL that contains neither /p/ nor /reel/.
C2_FirstTagWins ==
    sc_pc = "done" =>
        /\ \A i \in 1..Len(sc_url) : \A tag \in {PostTag, ReelTag} :
               (/\ IsTaggedCodeUrl(sc_url, i, tag)
                /\ \A h \in 1..(i - 1) : ~TagWithCodeAt(sc_url, h))
               => sc_result = TaggedCode(sc_url, i, tag)
        /\ (~ContainsAt(sc_url, PostTag) /\ ~ContainsAt(sc_url, ReelTag))
               => sc_result = None

\* the code of a reel URL with a non-empty prefix was extracted
C2_Witness ==
    /\ sc_pc = "done"
    /\ \E i \in 2..Len(sc_url) :
           /\ IsTaggedCodeUrl(sc_url, i, ReelTag)
           /\ \A h \in 1..(i - 1) : ~TagWithCodeAt(sc_url, h)
           /\ Len(TaggedCode(sc_url, i, ReelTag)) = 3
           /\ sc_result = TaggedCode(sc_url, i, ReelTag)

-----------------------------------------------------------------------------
(* What a page offers each strategy, said without the strategies' own code *)

Range(seq) == {seq[k] : k \in 1..Len(seq)}

\* the window._sharedData blob names an owner with a username and an id
BlobHasPair(blob) == blob.kind = "post" /\ blob.username # <<>> /\ blob.id # <<>>

\* the matches of the seven patterns of the pattern strategy, script_patterns
\* first and looser_patterns after them
PatternMatches(p, frags) ==
    IF p <= 4 THEN FindallScript(p, frags) ELSE FindallLooser(p - 4, frags)

\* a match the pattern strategy takes its pair from: one of the owner or user
\* script pattern, or one of a looser pattern whose username is not the brand
Accepted(p, m) == p \in {2, 3} \/ (p \in 5..7 /\ lower(m.g2) # BrandName)

AcceptedAt(frags, p, k) ==
    /\ k \in 1..Len(PatternMatches(p, frags))
    /\ Accepted(p, PatternMatches(p, frags)[k])

SomeAccepted(frags) == \E p \in 1..7 : \E k \in 1..Len(frags) : AcceptedAt(frags, p, k)

\* the record came from the embedded-script strategy, from the pattern strategy
FromEmbedded == cr_pc = "done" /\ cr_result.kind = "record" /\ cr_tried = <<"embedded">>

FromPattern ==
    cr_pc = "done" /\ cr_result.kind = "record" /\ cr_tried = <<"embedded", "pattern">>

-----------------------------------------------------------------------------
(* C3 *)

\* the page's owner block names alice and no id, and no script fragment of it
\* holds a pair
OwnerWithoutId(page) ==
    /\ page.blob.kind = "post"
    /\ page.blob.username = Alice
    /\ page.blob.id = <<>>
    /\ \A k \in 1..Len(page.frags) : page.frags[k].kind \in {"additional", "applink"}

\* C3: for a page whose owner block has the username "alice" and no numeric id,
\* and no other username/id pair, get_reel_creator returns the error 'Could not
\* extract author ID from Instagram post' (MissingAuthorId), not ExtractionFailed.
C3_OwnerWithoutIdIsMissingAuthorId ==
    (cr_pc = "done" /\ OwnerWithoutId(cr_page))
        => cr_result = ErrorResult(ErrAuthorId)

-----------------------------------------------------------------------------
(* C4 *)

\* C4: every record get_reel_creator returns has a non-empty username and a
\* non-empty author_id; when window._sharedData has a username and an empty id,
\* the embedded-script strategy returns no record and the pattern strategy is
\* tried next.
C4_RecordHasUsernameAndId ==
    /\ cr_result.kind = "record"
           => /\ cr_result.username \notin {None, <<>>}
              /\ cr_result.author_id \notin {None, <<>>}
    /\ (/\ "embedded" \in Range(cr_tried)
        /\ cr_page.blob.kind = "post"
        /\ cr_page.blob.username # <<>>
        /\ cr_page.blob.id = <<>>)
           => /\ ~FromEmbedded
              /\ cr_pc = "script" \/ "pattern" \in Range(cr_tried)

\* a blob with a username and no id was passed over and the record came from
\* the script patterns
C4_Witness ==
    /\ FromPattern
    /\ cr_page.blob.kind = "post"
    /\ cr_page.blob.username = Alice
    /\ cr_page.blob.id = <<>>
    /\ cr_result.author_id # <<>>

-----------------------------------------------------------------------------
(* C5 *)

\* C5 as claimed: the record of the pattern strategy is the first match of the
\* first pattern, in declaration order, that has a match at all.
C5_FirstMatchingPattern ==
    FromPattern =>
        \E p \in 1..7 :
            LET matches == PatternMatches(p, cr_page.frags)
            IN  /\ matches # <<>>
                /\ \A q \in 1..(p - 1) : PatternMatches(q, cr_page.frags) = <<>>
                /\ cr_result.author_id = matches[1].g1
                /\ cr_result.username = matches[1].g2

\* C5 (amended): the record of the pattern strategy is the first accepted match
\* of the first pattern, in declaration order, that has an accepted match, and
\* the strategy returns a record whenever some pattern has one. A match is
\* accepted when its pattern is the owner or the user script pattern, or a
\* looser pattern and its username is not 'instagram' in any casing.
C5_FirstAcceptedMatch ==
    /\ FromPattern =>
           \E p \in 1..7 : \E k \in 1..Len(cr_page.frags) :
               /\ AcceptedAt(cr_page.frags, p, k)
               /\ cr_result.author_id = PatternMatches(p, cr_page.frags)[k].g1
               /\ cr_result.username = PatternMatches(p, cr_page.frags)[k].g2
               /\ \A j \in 1..(k - 1) : ~AcceptedAt(cr_page.frags, p, j)
               /\ \A q \in 1..(p - 1) : \A j \in 1..Len(cr_page.frags) :
                      ~AcceptedAt(cr_page.frags, q, j)
    /\ (cr_pc = "done" /\ "pattern" \in Range(cr_tried) /\ SomeAccepted(cr_page.frags))
           => FromPattern

\* the additionalDataLoaded pattern had a match, and the record is the pair of a
\* later pattern
C5_Witness ==
    /\ FromPattern
    /\ PatternMatches(1, cr_page.frags) # <<>>
    /\ cr_result.username = Alice

-----------------------------------------------------------------------------
(* C6 *)

\* every pair the page's script fragments hold has the brand name for username
OnlyBrandPairs(page) ==
    /\ ~BlobHasPair(page.blob)
    /\ page.frags # <<>>
    /\ \A k \in 1..Len(page.frags) :
           /\ page.frags[k].kind \in {"owner", "user", "pk", "id"}
           /\ lower(page.frags[k].name) = BrandName

\* C6: when the only username/id pair of the page has a username that is
\* 'instagram' in some casing, the pattern strategy returns no record and the
\* metadata strategy is tried; no record has such a username.
C6_BrandIsNoMatch ==
    /\ cr_result.kind = "record" => lower(cr_result.username) # BrandName
    /\ (cr_pc = "done" /\ OnlyBrandPairs(cr_page)) => "metadata" \in Range(cr_tried)

-----------------------------------------------------------------------------
(* C7 *)

\* a username-like token starts at i: @name, name on Instagram or Instagram
\* post by name, with a name that is not the brand's
UsernameTokenAt(s, i) ==
    LET name(j) == SubSeq(s, j, RunEnd(s, j, NameChars) - 1)
        n == Len(InstagramPostBy)
    IN  \/ /\ s[i] = "@"
           /\ i < Len(s)
           /\ s[i + 1] \in NameChars
           /\ lower(name(i + 1)) # BrandName
        \/ /\ NameOnInstagramAt(s, i, TRUE)
           /\ (i = 1 \/ s[i - 1] \notin NameChars)
           /\ lower(name(i)) # BrandName
        \/ /\ HasAtCI(s, i, InstagramPostBy)
           /\ i + n <= Len(s)
           /\ s[i + n] \in NameChars
           /\ lower(name(i + n)) # BrandName

HasUsernameToken(s) == s # None /\ \E i \in 1..Len(s) : UsernameTokenAt(s, i)

\* the text says nothing of a user at all
NoUsernameIn(s) ==
    s = None \/ \A i \in 1..Len(s) : s[i] # "@" /\ ~HasAtCI(s, i, InstagramWord)

\* neither the embedded-script nor the pattern strategy finds a pair in the page
NoPairInPage(page) == ~BlobHasPair(page.blob) /\ ~SomeAccepted(page.frags)

\* C7: when the embedded-script and the pattern strategy yield no record, the
\* result is no record: it is MissingAuthorId when a meta tag or the title holds
\* a username-like token, and ExtractionFailed when the page names no user.
C7_MetadataOutcome ==
    (cr_pc = "done" /\ "embedded" \in Range(cr_tried) /\ NoPairInPage(cr_page)) =>
        /\ cr_result.kind = "error"
        /\ (\/ \E f \in MetaFieldSet : HasUsernameToken(cr_page.metas[f])
            \/ HasUsernameToken(cr_page.title))
               => cr_result = ErrorResult(ErrAuthorId)
        /\ (/\ cr_page.blob.username = <<>>
            /\ \A f \in MetaFieldSet : NoUsernameIn(cr_page.metas[f])
            /\ NoUsernameIn(cr_page.title))
               => cr_result = ErrorResult(ErrCreator)

-----------------------------------------------------------------------------
(* C8 *)

\* the fragment at k of the page holds both fields of the record
FragmentGives(frags, k, record) ==
    \/ record.author_id = frags[k].id /\ record.username = frags[k].name
    \/ /\ frags[k].kind = "urlpk"
       /\ record.author_id = frags[k].name
       /\ record.username = frags[k].id

\* C8: the strategies are tried in the order embedded, pattern, metadata; one is
\* tried only when the one before it gave no record; the first to find a record
\* returns it at once, with both author fields from that strategy's own source.
C8_StrategyOrder ==
    /\ \E n \in 0..3 : cr_tried = SubSeq(<<"embedded", "pattern", "metadata">>, 1, n)
    /\ Len(cr_tried) >= 2 => ~BlobHasPair(cr_page.blob)
    /\ Len(cr_tried) >= 3 => ~SomeAccepted(cr_page.frags)
    /\ cr_result.kind = "record" =>
           /\ cr_pc = "done"
           /\ \/ /\ cr_tried = <<"embedded">>
                 /\ cr_result.username = cr_page.blob.username
                 /\ cr_result.author_id = cr_page.blob.id
              \/ /\ cr_tried = <<"embedded", "pattern">>
                 /\ \E k \in 1..Len(cr_page.frags) :
                        FragmentGives(cr_page.frags, k, cr_result)

\* the embedded-script strategy found a username and no id in the blob, and the
\* pattern strategy returned the pair of a fragment, with another username
C8_Witness ==
    /\ FromPattern
    /\ cr_page.blob.kind = "post"
    /\ cr_page.blob.username = Alice
    /\ Len(cr_page.frags) = 1
    /\ FragmentGives(cr_page.frags, 1, cr_result)
    /\ cr_result.username # Alice

-----------------------------------------------------------------------------
(* C1 *)

\* C1: no result reports success without a shortcode: a record of
\* get_reel_creator has one, get_reel_creator returns an error for a URL no
\* shortcode can be extracted from, and handle_instagram_oembed sends no
\* success response for such a URL.
C1_NoSuccessWithoutShortcode ==
    /\ cr_result.kind = "record" => cr_result.shortcode # None
    /\ (cr_pc = "done" /\ extract_shortcode_from_url(cr_url) = None)
           => cr_result.kind = "error"
    /\ \A n \in 1..Len(stdout) :
           stdout[n].success =>
               /\ extract_shortcode_from_url(oe_post_url) # None
               /\ "shortcode" \in DOMAIN stdout[n].data

-----------------------------------------------------------------------------
(* C9 *)

HelloFunBob == <<"H","e","l","l","o"," ","#","f","u","n"," ","@","b","o","b">>

\* {"author_name": "alice", "title": "Hello #fun @bob"}
HelloJson == ("author_name" :> Alice) @@ ("title" :> HelloFunBob)

\* C9: for the oEmbed JSON {"author_name":"alice","title":"Hello #fun @bob"} and
\* the URL https://instagram.com/p/ABC123/, handle_instagram_oembed sends a
\* success response with shortcode "ABC123", username "alice", hashtags ["fun"]
\* and mentions ["bob"].
C9_HelloFunBob ==
    (/\ oe_pc = "done"
     /\ oe_post_url = Abc123Url
     /\ oe_data.type = "dict"
     /\ {"author_name", "title"} \subseteq DOMAIN oe_data.items
     /\ oe_data.items["author_name"] = Alice
     /\ oe_data.items["title"] = HelloFunBob
     /\ oe_data.items["username"] = Alice
     /\ oe_data.items["caption"] = HelloFunBob)
        => LET response == stdout[Len(stdout)]
           IN  /\ response.success
               /\ response.data["shortcode"] = <<"A","B","C","1","2","3">>
               /\ response.data["username"] = Alice
               /\ response.data["hashtags"] = << <<"f","u","n">> >>
               /\ "mentions" \in DOMAIN response.data
               /\ response.data["mentions"] = << <<"b","o","b">> >>

-----------------------------------------------------------------------------
(* C10 *)

\* the URL has a /p/<code> or a /reel/<code> segment
HasCodeSegment(url) == \E i \in 1..Len(url) : TagWithCodeAt(url, i)

\* C10: a URL without a /p/<code> or /reel/<code> segment is rejected before
\* any fetch: validate_collected_urls marks its row invalid_format and does not
\* call check_url_exists for it, and get_reel_creator and
\* handle_instagram_oembed issue no HTTP request for it.
C10_RejectedBeforeFetch ==
    /\ \A n \in 1..Len(requests) : HasCodeSegment(requests[n].url)
    /\ \A k \in 1..Len(va_validated) :
           LET post_url == strip(va_validated[k].post_url)
           IN  (post_url # <<>> /\ ~HasCodeSegment(post_url))
                   => va_validated[k].status = "invalid_format"

-----------------------------------------------------------------------------
(* C11: the post loop of scrape_instagram_profile processes at most 100 posts *)

\* C11: whatever the outcome of each post, posts never holds more than 100
\* entries and the listing is never advanced past its 100th item
C11_AtMostHundredPosts ==
    /\ sp_post_count <= 100
    /\ sp_taken <= 100

-----------------------------------------------------------------------------
(* C12: interrupting process_profiles after N of M profiles have completed *)

\* the rows 1..n of finished profiles, each with a terminal post_url
CompleteRows(rows, n) ==
    /\ Len(rows) = n
    /\ \A i \in 1..n : /\ rows[i].profile = i
                        /\ rows[i].post_url \in {"found", "No posts found"}

\* C12: when an interrupted run of process_profiles has ended, the sink holds
\* exactly one complete row for each of the N profiles counted as processed,
\* and the count it printed is the number of rows written
C12_InterruptedRunSavesProcessed ==
    (pp_interrupted /\ pp_pc \in {"done", "killed"}) =>
        /\ CompleteRows(pp_sink, pp_processed)
        /\ pp_pc = "done" => pp_printed = <<Len(pp_sink)>>

-----------------------------------------------------------------------------
(* C13: an interrupt signal in a batch runner *)

\* C13: when a run of process_profiles_auto that was interrupted has ended,
\* it has ended normally and the sink holds all the results accumulated
C13_InterruptSavesResults ==
    (pa_interrupted /\ pa_pc \in {"done", "killed"}) =>
        /\ pa_pc = "done"
        /\ pa_sink = pa_results

-----------------------------------------------------------------------------
(* C14: an error raised while handling one batch item *)

\* C14: no row of its input ends the loop of validate_collected_urls with
\* an exception: an error raised at a row is caught at that row
C14_ItemErrorsAreCaught == va_pc # "raised"

-----------------------------------------------------------------------------
(* C15: the thread pool of process_all_profiles *)

\* the batch a task belongs to
BatchOf(t) == (t - 1) \div batch_size

\* C15: at most 3 profile fetches are in flight, and no task of a later
\* batch is submitted before every result of an earlier batch is collected
C15_BoundedPoolAndBatchBarrier ==
    /\ Cardinality(TasksIn({"running"})) <= 3
    /\ \A t, u \in 1..pf_profiles :
          (BatchOf(t) < BatchOf(u) /\ pf_tasks[u] # "new") => pf_tasks[t] = "collected"

\* the pool is full with tasks of the second batch
C15_Witness ==
    /\ Len(pf_results) = batch_size
    /\ Cardinality(TasksIn({"running"})) = 3

-----------------------------------------------------------------------------
(* C16: the results collection of process_all_profiles *)

\* C16: while save_results reads results no task is queued or running, and
\* every row of results was appended for a task that had finished
C16_NoSaveWhileWorkersRun ==
    /\ pf_pc \in {"progress_write", "save_write"} => TasksIn({"queued", "running"}) = {}
    /\ \A k \in 1..Len(pf_results) : pf_tasks[pf_results[k].profile] = "collected"

\* the results of two batches are being saved
C16_Witness ==
    /\ pf_pc = "progress_write"
    /\ pf_profiles > batch_size
    /\ Len(pf_results) = pf_profiles

-----------------------------------------------------------------------------
(* C17: the delay between two network fetches in sequential mode *)

\* C17: process_profiles_auto never issues two HTTP requests without a
\* sleep between them
C17_SleepBetweenFetches == pa_net # <<"get", "get">>

-----------------------------------------------------------------------------
(* C18: one response for every request that has an id and an action *)

\* the responses on stdout that carry the id of the n-th line
ResponsesTo(n) ==
    {k \in 1..Len(api_stdout) : "id" \in DOMAIN api_stdout[k] /\ api_stdout[k].id = n}

\* C18: for every line read whose object has an id and an action, stdout has
\* exactly one response with that id, with data only when success is true
\* and error only when success is false
C18_OneResponsePerRequest ==
    \A n \in 1..Len(api_read) :
        (api_read[n].json = "object" /\ api_read[n].id # 0 /\ api_read[n].action # "") =>
            /\ Cardinality(ResponsesTo(n)) = 1
            /\ \A k \in ResponsesTo(n) :
                  /\ "data" \in DOMAIN api_stdout[k] => api_stdout[k].success
                  /\ "error" \in DOMAIN api_stdout[k] => ~api_stdout[k].success

-----------------------------------------------------------------------------
(* C19: the server is persistent *)

\* C19: after any request line the loop is still running; it ends only at
\* the end of input or on a keyboard interrupt
C19_LoopSurvivesEveryLine == api_pc \in {"loop", "end_of_input", "interrupted"}

-----------------------------------------------------------------------------
(* C20: exponential_backoff_retry with max_retries >= 1 *)

\* C20: func is invoked at most max_retries times; the run ends by returning
\* the result of the first invocation that succeeds or by raising the
\* exception of its last invocation; every invocation but the last failed
\* with a rate-limit or auth error and was followed by a sleep of
\* initial_delay * 2^k (k = 0, 1, ...); there is no sleep after the last
\* invocation, and any other exception is raised at once
C20_RetryContract ==
    rt_max_retries >= 1 =>
        /\ Len(rt_calls) <= rt_max_retries
        /\ rt_pc = "returned" =>
              /\ rt_calls # <<>>
              /\ rt_end = [how |-> "return", what |-> rt_calls[Len(rt_calls)]]
              /\ rt_calls[Len(rt_calls)].ok
        /\ rt_pc = "raised" =>
              /\ rt_calls # <<>>
              /\ rt_end = [how |-> "raise", what |-> rt_calls[Len(rt_calls)]]
              /\ ~rt_calls[Len(rt_calls)].ok
        /\ \A n \in 1..Len(rt_calls) :
              (n < Len(rt_calls) \/ rt_pc = "loop") =>
                  /\ ~rt_calls[n].ok
                  /\ IsRateLimit(rt_calls[n].text)
        /\ Len(rt_slept) = IF rt_pc = "loop" THEN Len(rt_calls)
                           ELSE Len(rt_calls) - 1
        /\ Len(rt_slept) < rt_max_retries
        /\ \A k \in 1..Len(rt_slept) : rt_slept[k] = rt_initial_delay * 2^(k - 1)

\* three invocations met a rate limit: two sleeps, and the third exception
\* is raised without a sleep
C20_Witness ==
    /\ rt_pc = "raised"
    /\ Len(rt_calls) = 3
    /\ IsRateLimit(rt_calls[3].text)
    /\ rt_slept = <<60, 120>>

-----------------------------------------------------------------------------
(* C21: the counts analyze_content reports *)

\* the positions of s, in increasing order
RECURSIVE Ascending(_)
Ascending(S) == IF S = {} THEN <<>> ELSE <<Min(S)>> \o Ascending(S \ {Min(S)})

\* where a token starts in s: the prefix character followed by a character of C
TokenStarts(s, prefix, C) ==
    {i \in 1..(Len(s) - 1) : s[i] = prefix /\ s[i + 1] \in C}

\* the token that starts at i, without its prefix character
TokenAt(s, i, C) == SubSeq(s, i + 1, RunEnd(s, i + 1, C) - 1)

\* the tokens of s in order of appearance, prefix stripped, duplicates kept
TokensOf(s, prefix, C) ==
    LET at == Ascending(TokenStarts(s, prefix, C))
    IN  [n \in 1..Len(at) |-> TokenAt(s, at[n], C)]

C21_TagClass == Upper \cup Lower \cup Digit \cup {"_"}

C21_MentionClass == Upper \cup Lower \cup Digit \cup {"_", "."}

\* the title of the analysed record is a text (it may be empty)
AnalysedText == an_pc = "done" /\ "title" \in DOMAIN an_reel_data /\ an_reel_data.title # None

\* the decoded caption of the analysed record
AnalysedCaption == html_unescape(an_reel_data.title)

\* no token occurs twice in s
DistinctTokens(s, prefix, C) ==
    \A i, j \in TokenStarts(s, prefix, C) : i # j => TokenAt(s, i, C) # TokenAt(s, j, C)

DistinctCaption ==
    /\ DistinctTokens(AnalysedCaption, "#", C21_TagClass)
    /\ DistinctTokens(AnalysedCaption, "@", C21_MentionClass)

\* C21 as stated: for a caption with k distinct #tag tokens and m distinct
\* @mention tokens, for every k >= 0 and m >= 0, the result reports
\* hashtag_count = k and mention_count = m
C21_CountsReportedForEveryK ==
    (AnalysedText /\ DistinctCaption) =>
        LET k == Cardinality(TokenStarts(AnalysedCaption, "#", C21_TagClass))
            m == Cardinality(TokenStarts(AnalysedCaption, "@", C21_MentionClass))
        IN  /\ "hashtag_count" \in DOMAIN an_analysis
            /\ an_analysis.hashtag_count = k
            /\ "mention_count" \in DOMAIN an_analysis
            /\ an_analysis.mention_count = m

\* C21: for a caption with k distinct #tag tokens and m distinct @mention
\* tokens, whatever surrounds the tokens, the result reports hashtag_count = k
\* when k >= 1 and has no hashtag_count when k = 0, and it reports
\* mention_count = m when m >= 1 and has no mention_count when m = 0
C21_CountsReported ==
    (AnalysedText /\ DistinctCaption) =>
        LET k == Cardinality(TokenStarts(AnalysedCaption, "#", C21_TagClass))
            m == Cardinality(TokenStarts(AnalysedCaption, "@", C21_MentionClass))
        IN  /\ IF k >= 1
               THEN "hashtag_count" \in DOMAIN an_analysis /\ an_analysis.hashtag_count = k
               ELSE "hashtag_count" \notin DOMAIN an_analysis
            /\ IF m >= 1
               THEN "mention_count" \in DOMAIN an_analysis /\ an_analysis.mention_count = m
               ELSE "mention_count" \notin DOMAIN an_analysis

\* "#fun#Sun_2@bob": two tags and a mention with nothing between them
C21_Witness ==
    /\ an_pc = "done"
    /\ an_reel_data = [title |-> <<"#","f","u","n","#","S","u","n","_","2","@","b","o","b">>]
    /\ an_analysis.hashtag_count = 2
    /\ an_analysis.mention_count = 1

-----------------------------------------------------------------------------
(* C22: the hashtags and the mentions analyze_content returns *)

C22_TagClass == Upper \cup Lower \cup Digit \cup {"_"}

C22_MentionClass == Upper \cup Lower \cup Digit \cup {"_", "."}

\* C22 as stated: the result's hashtags are exactly the sequence of the
\* '#'-prefixed [A-Za-z0-9_]+ tokens of the unescaped caption and its mentions
\* exactly the sequence of the '@'-prefixed [A-Za-z0-9_.]+ tokens
C22_TokenSequencesReturned ==
    AnalysedText =>
        /\ "hashtags" \in DOMAIN an_analysis
        /\ an_analysis.hashtags = TokensOf(AnalysedCaption, "#", C22_TagClass)
        /\ "mentions" \in DOMAIN an_analysis
        /\ an_analysis.mentions = TokensOf(AnalysedCaption, "@", C22_MentionClass)

\* C22: when the unescaped caption has '#'-prefixed [A-Za-z0-9_]+ tokens, the
\* result's hashtags are exactly their sequence, in order of appearance, with
\* the prefix stripped and duplicates preserved, and when it has none the
\* result has no hashtags; the same for the '@'-prefixed [A-Za-z0-9_.]+ tokens
\* and mentions
C22_TokenSequences ==
    AnalysedText =>
        LET tags == TokensOf(AnalysedCaption, "#", C22_TagClass)
            ats  == TokensOf(AnalysedCaption, "@", C22_MentionClass)
        IN  /\ IF tags # <<>>
               THEN "hashtags" \in DOMAIN an_analysis /\ an_analysis.hashtags = tags
               ELSE "hashtags" \notin DOMAIN an_analysis
            /\ IF ats # <<>>
               THEN "mentions" \in DOMAIN an_analysis /\ an_analysis.mentions = ats
               ELSE "mentions" \notin DOMAIN an_analysis

\* "#fun@al.x#fun": a tag twice, around a mention with a dot
C22_Witness ==
    /\ an_pc = "done"
    /\ an_reel_data = [title |-> <<"#","f","u","n","@","a","l",".","x","#","f","u","n">>]
    /\ an_analysis.hashtags = << <<"f","u","n">>, <<"f","u","n">> >>
    /\ an_analysis.mentions = << <<"a","l",".","x">> >>

-----------------------------------------------------------------------------
(* C23: the line count of analyze_content *)

\* C23: for an empty caption the result has no hashtags, no mentions and no
\* line_count; for a caption that is not empty line_count is the number of
\* newline characters plus 1, and it is at least 1
C23_LineCount ==
    AnalysedText =>
        IF an_reel_data.title = <<>>
        THEN DOMAIN an_analysis \cap {"hashtags", "mentions", "line_count"} = {}
        ELSE /\ "line_count" \in DOMAIN an_analysis
             /\ an_analysis.line_count
                    = Cardinality({i \in 1..Len(AnalysedCaption) : AnalysedCaption[i] = "\n"}) + 1
             /\ an_analysis.line_count >= 1

\* a caption of three lines
C23_Witness ==
    /\ an_pc = "done"
    /\ an_reel_data = [title |-> <<"H","i","\n","\n">>]
    /\ an_analysis.line_count = 3

\* the empty caption is analysed, too
C23_WitnessEmpty ==
    /\ an_pc = "done"
    /\ an_reel_data = [title |-> <<>>]
    /\ an_analysis = <<>>

-----------------------------------------------------------------------------
(* C24: the thumbnail_url of the records of get_reel_creator *)

\* the content of the first of og:image, twitter:image and image_src that the
\* page has, None when it has none of them
FirstThumbnail(page) ==
    IF page.thumbs["og:image"] # None THEN page.thumbs["og:image"]
    ELSE IF page.thumbs["twitter:image"] # None THEN page.thumbs["twitter:image"]
    ELSE page.thumbs["image_src"]

\* C24: in every success record of get_reel_creator, whichever strategy
\* produced it, thumbnail_url is the content of the first pattern that is
\* present in the page among og:image, twitter:image and image_src, in this
\* order, and None when none of them is present
C24_ThumbnailByPriority ==
    (cr_pc = "done" /\ cr_result.kind = "record") =>
        cr_result.thumbnail_url = FirstThumbnail(cr_page)

\* a record of the script patterns from a page that has the twitter:image and
\* the image_src tag but no og:image
C24_Witness ==
    /\ cr_pc = "done"
    /\ cr_result.kind = "record"
    /\ cr_tried = <<"embedded", "pattern">>
    /\ cr_page.thumbs["og:image"] = None
    /\ cr_page.thumbs["twitter:image"] # None
    /\ cr_page.thumbs["image_src"] # None
    /\ cr_result.thumbnail_url = cr_page.thumbs["twitter:image"]

\* a record of the embedded-script strategy from a page without any of the tags
C24_WitnessNone ==
    /\ cr_pc = "done"
    /\ cr_result.kind = "record"
    /\ cr_tried = <<"embedded">>
    /\ \A k \in DOMAIN cr_page.thumbs : cr_page.thumbs[k] = None
    /\ cr_result.thumbnail_url = None

-----------------------------------------------------------------------------
(* C25: the media type of the records of the discovery paths *)

\* the record that was returned holds a URL
DiscoveredRecord == dp_pc = "done" /\ dp_record.kind = "dict" /\ dp_record.url # <<>>

\* C25: in every record of the profile-post discovery paths the media type is
\* 'reel' if and only if the record's URL contains /reel/ or the is_video flag
\* of the structured data of its post is true, and it is 'post' otherwise; a
\* record of extract_post_data, which has no type, has a /reel/ URL exactly
\* when its is_video is true
C25_ReelIffReelPathOrVideo ==
    DiscoveredRecord =>
        LET reel == ContainsAt(dp_record.url, <<"/","r","e","e","l","/">>)
                        \/ dp_record.from.is_video
        IN  IF dp_path = "extract_post_data"
            THEN reel = dp_record.from.is_video
            ELSE dp_record.type = (IF reel THEN "reel" ELSE "post")

-----------------------------------------------------------------------------
(* C26: reels and all_posts in the result of scrape_instagram_profile *)

\* the entries of s that satisfy is_video, in the order of s
RECURSIVE VideosOf(_)
VideosOf(s) ==
    IF s = <<>> THEN <<>>
    ELSE IF Head(s).is_video THEN <<Head(s)>> \o VideosOf(Tail(s)) ELSE VideosOf(Tail(s))

-----------------------------------------------------------------------------
(* C27: the rows of the CSV files that have a status column *)

C27_Statuses == {"found", "not_found", "pending", "valid", "invalid_format", "error"}

\* C27: every row written to a CSV file that has a status column has a status
\* of found, not_found, pending, valid, invalid_format or error, and a row
\* has the status found only if its post_url is not empty and its post_type
\* is post or reel
C27_RowStatuses ==
    \A n \in 1..Len(rw_sink) :
        /\ rw_sink[n].status \in C27_Statuses
        /\ rw_sink[n].status = "found" =>
               /\ rw_sink[n].post_url # <<>>
               /\ rw_sink[n].post_type \in {"post", "reel"}

\* process_profiles_auto has written a found row and a not_found row
C27_Witness ==
    /\ rw_writer = "process_profiles_auto"
    /\ Len(rw_sink) = 2
    /\ rw_sink[1].status = "found"
    /\ rw_sink[1].post_type = "reel"
    /\ rw_sink[2].status = "not_found"

-----------------------------------------------------------------------------
(* C28: the rows and the counts of a complete run of process_all_profiles *)

\* C28: when process_all_profiles completes, results holds exactly one row for
\* each input profile, whatever the order in which the tasks completed and
\* whether each of them returned or raised, and successful + failed is the
\* number of profiles
C28_OneRowPerProfile ==
    pf_pc = "done" =>
        /\ Len(pf_results) = pf_profiles
        /\ \A t \in 1..pf_profiles :
              Cardinality({k \in 1..Len(pf_results) : pf_results[k].profile = t}) = 1
        /\ pf_successful + pf_failed = pf_profiles

\* a complete run of two batches in which tasks raised and the first row is
\* not the row of the first profile
C28_Witness ==
    /\ pf_pc = "done"
    /\ pf_profiles > batch_size
    /\ pf_replies[1] = "crash"
    /\ pf_results[1].profile = 3
    /\ pf_successful > 0
    /\ pf_failed > 0

-----------------------------------------------------------------------------
(* C29: handle_instagram_scraper and the argument vector of the process *)

\* C29: whenever control has left handle_instagram_scraper, after a scraper
\* that returned, raised or requested the exit of the process, sys.argv is
\* what it was before the request, and every run of the scraper has parsed
\* the arguments of its own request
C29_ArgvRestored ==
    /\ hs_pc \in {"request", "handler", "exited"} => hs_argv = <<"api_server.py">>
    /\ \A k \in 1..Len(hs_seen) :
          /\ hs_seen[k].argv[3] = hs_seen[k].params.username
          /\ hs_seen[k].argv[5] = hs_seen[k].params.analysisId
          /\ Len(hs_seen[k].argv) > 5 => hs_seen[k].argv[7] = hs_seen[k].params.extensionCookies

\* the scraper of a first request raised and the scraper of a second request,
\* for another user, has ended the process
C29_Witness ==
    /\ hs_pc = "exited"
    /\ Len(hs_seen) = 2
    /\ hs_seen[1].params.username = "u"
    /\ hs_seen[2].params.username = "v"
    /\ hs_seen[2].argv[3] = "v"
    /\ hs_argv = <<"api_server.py">>

-----------------------------------------------------------------------------
(* C30: the limited runs and profile_link.txt *)

\* C30: when a run of auto_fetch_posts.py --sample or fast_fetch_posts.py
\* --test has ended, whether its batch run completed, failed with an error or
\* was interrupted, profile_link.txt has the content it had when the run
\* started
C30_InputFileRestored ==
    lr_pc = "ended" => lr_files["profile_link.txt"] = lr_original

====
